---- MODULE Spec2Model ----
(***************************************************************************)
(* Model of gluesql's numeric coercion and arithmetic engine for an i16    *)
(* left operand (core/src/data/value/binary_op/i16.rs): equality and       *)
(* ordering of an i16 against a Value, and the five checked arithmetic     *)
(* operators of TryBinaryOperator.                                         *)
(*                                                                         *)
(* The operators are pure functions.  The state machine draws an operand   *)
(* pair (lhs, rhs) in Init and every action calls one operator on it and   *)
(* records what the call returned.                                         *)
(*                                                                         *)
(* TLC's integers are 32 bits wide, the program's are up to 128 bits wide  *)
(* (and a Decimal mantissa is 96 bits, an f64 mantissa 53 bits), so every  *)
(* program integer is an exact integer here: a sign and a magnitude, the   *)
(* magnitude a little-endian sequence of base-2^14 limbs without leading  *)
(* zero limbs.  Zero is [neg |-> FALSE, mag |-> << >>].                    *)
(***************************************************************************)
EXTENDS Integers, Sequences, FiniteSets, TLC

(***************************************************************************)
(* Exact integers                                                          *)
(***************************************************************************)
LimbBits == 14
Base == 2^LimbBits

\* the largest element of a non-empty set of integers
SetMax(S) == CHOOSE x \in S : \A y \in S : y <= x

\* the smallest element of a non-empty set of integers
SetMin(S) == CHOOSE x \in S : \A y \in S : x <= y

\* drop the zero limbs at the top
MagNorm(m) ==
  LET nz == {i \in 1..Len(m) : m[i] # 0}
  IN  IF nz = {} THEN << >> ELSE SubSeq(m, 1, SetMax(nz))

\* the magnitude of a natural number below 2^31, which has three limbs
MagOfNat(n) == MagNorm(<<n % Base, (n \div Base) % Base, n \div (Base * Base)>>)

\* 2^k
Pow2(k) ==
  SubSeq([i \in 1..(k \div LimbBits + 1) |->
            IF i = k \div LimbBits + 1 THEN 2^(k % LimbBits) ELSE 0],
         1, k \div LimbBits + 1)

\* -1, 0 or 1 as the limb at the differing place t is smaller or larger
CmpAt(a, b, df) ==
  IF df = {} THEN 0 ELSE IF a[SetMax(df)] < b[SetMax(df)] THEN -1 ELSE 1

\* -1, 0 or 1 as a < b, a = b, a > b
MagCmp(a, b) ==
  IF Len(a) < Len(b) THEN -1
  ELSE IF Len(a) > Len(b) THEN 1
  ELSE CmpAt(a, b, {i \in 1..Len(a) : a[i] # b[i]})

Limb(a, i) == IF i > Len(a) THEN 0 ELSE a[i]

\* a + b; the carry into limb i is 1 exactly when some lower limb pair
\* overflows and every pair between it and i sums to Base - 1
MagAdd(a, b) ==
  LET n == IF Len(a) > Len(b) THEN Len(a) ELSE Len(b)
      carry(i) == \E j \in 1..(i - 1) :
                     /\ Limb(a, j) + Limb(b, j) >= Base
                     /\ \A k \in (j + 1)..(i - 1) : Limb(a, k) + Limb(b, k) = Base - 1
  IN  IF Len(a) = 0 THEN b
      ELSE IF Len(b) = 0 THEN a
      ELSE MagNorm([i \in 1..(n + 1) |->
                      (Limb(a, i) + Limb(b, i) + (IF carry(i) THEN 1 ELSE 0)) % Base])

\* a - b for a >= b; the borrow from limb i is 1 exactly when some lower
\* limb of a is smaller than b's and every pair between it and i is equal
MagSub(a, b) ==
  LET borrow(i) == \E j \in 1..(i - 1) :
                      /\ a[j] < Limb(b, j)
                      /\ \A k \in (j + 1)..(i - 1) : a[k] = Limb(b, k)
  IN  IF Len(b) = 0 \/ Len(a) = 0 THEN a
      ELSE MagNorm([i \in 1..Len(a) |->
                      (a[i] - Limb(b, i) - (IF borrow(i) THEN 1 ELSE 0) + Base) % Base])

\* a * Base^k
MagShiftLimbs(a, k) == IF Len(a) = 0 THEN << >> ELSE [i \in 1..k |-> 0] \o a

\* a * d for a limb d: the low halves of the limb products plus their high
\* halves one limb up
MagMulSmall(a, d) ==
  IF Len(a) = 0 \/ d = 0 THEN << >>
  ELSE MagAdd(SubSeq([i \in 1..Len(a) |-> (a[i] * d) % Base], 1, Len(a)),
              <<0>> \o [i \in 1..Len(a) |-> (a[i] * d) \div Base])

\* a times the limbs lo..hi of b, each in its place
RECURSIVE MagMulAt(_, _, _, _)
MagMulAt(a, b, lo, hi) ==
  IF lo = hi THEN MagShiftLimbs(MagMulSmall(a, b[lo]), lo - 1)
  ELSE IF Len(a) = 0 THEN << >>
  ELSE MagAdd(MagMulAt(a, b, lo, (lo + hi) \div 2),
              MagMulAt(a, b, (lo + hi) \div 2 + 1, hi))

MagMul(a, b) == IF Len(b) = 0 THEN << >> ELSE MagMulAt(a, b, 1, Len(b))

\* a * 2^k
MagShl(a, k) == MagShiftLimbs(MagMulSmall(a, 2^(k % LimbBits)), k \div LimbBits)

\* floor(t / 2^s) for s below LimbBits
ShrBits(t, s) ==
  MagNorm([i \in 1..Len(t) |->
             (t[i] \div 2^s)
             + (IF i < Len(t) THEN (t[i + 1] % 2^s) * 2^(LimbBits - s) ELSE 0)])

\* floor(a / 2^k)
MagShr(a, k) ==
  IF k \div LimbBits >= Len(a) THEN << >>
  ELSE ShrBits(SubSeq(a, k \div LimbBits + 1, Len(a)), k % LimbBits)

\* a mod 2^k
MagLow(a, k) ==
  IF k \div LimbBits >= Len(a) THEN a
  ELSE MagNorm(SubSeq(a, 1, k \div LimbBits)
               \o <<a[k \div LimbBits + 1] % 2^(k % LimbBits)>>)

\* number of bits of a limb n
NatBitLen(n) == CHOOSE k \in 0..LimbBits : n < 2^k /\ (k = 0 \/ 2^(k - 1) <= n)

\* number of bits of a: 0 for zero, else floor(log2 a) + 1
MagBitLen(a) ==
  IF a = << >> THEN 0 ELSE LimbBits * (Len(a) - 1) + NatBitLen(a[Len(a)])

MagIsOdd(a) == a # << >> /\ a[1] % 2 = 1

\* the largest limb d with d * b <= r, for r < b * Base and the top limb of
\* b at least Base / 2: the estimate q from the top limbs, cut to a limb, is
\* at most 2 too big
QuotLimb(r, b, q) ==
  SetMax({d \in {0, q - 2, q - 1, q} :
            d >= 0 /\ d < Base /\ MagCmp(MagMulSmall(b, d), r) <= 0})

\* [q, r] of the dividend r1 for the quotient limb d, which goes below the
\* limbs hq
DivStepBy(hq, r1, b, d) ==
  [q |-> MagNorm(<<d>> \o hq), r |-> MagSub(r1, MagMulSmall(b, d))]

\* the step for the dividend r1
DivStepOf(hq, r1, b) ==
  DivStepBy(hq, r1, b,
            QuotLimb(r1, b,
                     IF Limb(r1, Len(b) + 1) >= b[Len(b)] THEN Base - 1
                     ELSE (Limb(r1, Len(b) + 1) * Base + Limb(r1, Len(b)))
                            \div b[Len(b)]))

\* one step of long division: [q, r] for the dividend h.r * Base + ai, with
\* the quotient limb put below those of h.q
DivStep(h, ai, b) == DivStepOf(h.q, MagNorm(<<ai>> \o h.r), b)

\* long division by b of the limbs hi, hi - 1, .., lo of a, continuing from
\* the quotient and remainder h of the limbs above hi.  The high half is
\* evaluated to its end (the test on its quotient) before the low half starts.
RECURSIVE MagDivModAt(_, _, _, _, _)
MagDivModAt(h, a, b, lo, hi) ==
  IF lo = hi THEN DivStep(h, a[lo], b)
  ELSE IF Len(h.q) <= Len(a)
       THEN MagDivModAt(MagDivModAt(h, a, b, (lo + hi + 1) \div 2, hi),
                        a, b, lo, (lo + hi + 1) \div 2 - 1)
       ELSE h

\* long division of all the limbs of a
DivAll(a, b) == MagDivModAt([q |-> << >>, r |-> << >>], a, b, 1, Len(a))

\* the quotient, and the remainder scaled back by 2^s
DivUnscale(h, s) == [q |-> h.q, r |-> MagShr(h.r, s)]

\* floor(a / b) and a mod b for b > 0; both are first scaled by a power of
\* two that brings the top limb of b to at least Base / 2
MagDivMod(a, b) ==
  IF MagCmp(a, b) < 0 THEN [q |-> << >>, r |-> a]
  ELSE DivUnscale(DivAll(MagShl(a, LimbBits - NatBitLen(b[Len(b)])),
                         MagShl(b, LimbBits - NatBitLen(b[Len(b)]))),
                  LimbBits - NatBitLen(b[Len(b)]))

\* 10^k: a power below 10^10 fits a TLC integer, a larger one is the product
\* of the powers of the halves of k
RECURSIVE MagPow10(_)
MagPow10(k) ==
  IF k < 10 THEN MagOfNat(10^k)
  ELSE MagMul(MagPow10(k \div 2), MagPow10(k - k \div 2))

Big(n) == [neg |-> n < 0, mag |-> MagOfNat(IF n < 0 THEN 0 - n ELSE n)]

MkBig(neg, mag) == [neg |-> neg /\ mag # << >>, mag |-> mag]

BigNeg(x) == MkBig(~x.neg, x.mag)

\* the difference of the magnitudes with the sign of the larger, for x and y
\* of opposite signs
BigAddOpposite(x, y, xLarger) ==
  IF xLarger THEN MkBig(x.neg, MagSub(x.mag, y.mag))
  ELSE MkBig(y.neg, MagSub(y.mag, x.mag))

BigAdd(x, y) ==
  IF x.neg = y.neg THEN MkBig(x.neg, MagAdd(x.mag, y.mag))
  ELSE BigAddOpposite(x, y, MagCmp(x.mag, y.mag) >= 0)

BigSub(x, y) == BigAdd(x, BigNeg(y))

BigMul(x, y) == MkBig(x.neg # y.neg, MagMul(x.mag, y.mag))

\* quotient truncated toward zero, y # 0
BigDiv(x, y) == MkBig(x.neg # y.neg, MagDivMod(x.mag, y.mag).q)

\* remainder with the sign of the dividend, y # 0
BigRem(x, y) == MkBig(x.neg, MagDivMod(x.mag, y.mag).r)

\* -1, 0 or 1 as x < y, x = y, x > y
BigCmp(x, y) ==
  IF x.neg /\ ~y.neg THEN -1
  ELSE IF ~x.neg /\ y.neg THEN 1
  ELSE IF x.neg THEN MagCmp(y.mag, x.mag)
  ELSE MagCmp(x.mag, y.mag)

BigZero == [neg |-> FALSE, mag |-> << >>]

(***************************************************************************)
(* Fixed-width signed integers                                             *)
(***************************************************************************)
IntTags == {"I8", "I16", "I32", "I64", "I128"}

\* bits of an integer variant
Width(tag) ==
  CASE tag = "I8"   -> 8
    [] tag = "I16"  -> 16
    [] tag = "I32"  -> 32
    [] tag = "I64"  -> 64
    [] tag = "I128" -> 128

\* iN::MIN and iN::MAX
MinOf(w) == MkBig(TRUE, Pow2(w - 1))
MaxOf(w) == MkBig(FALSE, MagSub(Pow2(w - 1), <<1>>))

\* MIN <= x <= MAX, from c, the comparison of |x| with 2^(w-1)
InRangeBy(neg, c) == c < 0 \/ (c = 0 /\ neg)

InRange(x, w) == InRangeBy(x.neg, MagCmp(x.mag, Pow2(w - 1)))

\* x mod 2^w from low, |x| mod 2^w
ModPow2(neg, low, w) ==
  IF neg /\ low # << >> THEN MagSub(Pow2(w), low) ELSE low

\* the two's complement value of the w bits u
TwosComplement(u, w) ==
  IF MagBitLen(u) = w THEN MkBig(TRUE, MagSub(Pow2(w), u)) ELSE MkBig(FALSE, u)

\* `x as iN`: the two's complement value of the low w bits of x
AsInt(x, w) == TwosComplement(ModPow2(x.neg, MagLow(x.mag, w), w), w)

\* Option<T>
None == [some |-> FALSE]
Some(v) == [some |-> TRUE, v |-> v]

\* the exact result e unless the wrapped one differs from it
Checked(e, w) == IF AsInt(e, w) = e THEN Some(e) ELSE None

\* iN::wrapping_add: the sum taken back into w bits, never None
wrapping_add(x, y, w) == Some(AsInt(BigAdd(x, y), w))

\* iN::checked_add and the like: the wrapped result unless it differs from
\* the exact one
checked_add(x, y, w) == Checked(BigAdd(x, y), w)

checked_sub(x, y, w) == Checked(BigSub(x, y), w)

checked_mul(x, y, w) == Checked(BigMul(x, y), w)

\* None for a zero divisor and for MIN / -1
checked_div(x, y, w) ==
  IF y.mag = << >> \/ (x = MinOf(w) /\ y = [neg |-> TRUE, mag |-> <<1>>]) THEN None
  ELSE Some(BigDiv(x, y))

\* None for a zero divisor and for MIN % -1
checked_rem(x, y, w) ==
  IF y.mag = << >> \/ (x = MinOf(w) /\ y = [neg |-> TRUE, mag |-> <<1>>]) THEN None
  ELSE Some(BigRem(x, y))

(***************************************************************************)
(* f64: IEEE-754 binary64.  A finite value is neg, mag, exp standing for   *)
(* (-1)^neg * mag * 2^exp with mag odd (or zero, with exp 0), so equal     *)
(* records are equal doubles; zero keeps its sign.  Arithmetic computes    *)
(* the exact result and rounds it to nearest, ties to even.                *)
(***************************************************************************)
F64MantBits == 53
F64MaxExp == 1023
F64MinQuantum == -1074

F64NaN == [kind |-> "nan", neg |-> FALSE, mag |-> << >>, exp |-> 0]
F64Inf(neg) == [kind |-> "inf", neg |-> neg, mag |-> << >>, exp |-> 0]
F64Zero(neg) == [kind |-> "fin", neg |-> neg, mag |-> << >>, exp |-> 0]

Min2(a, b) == IF a < b THEN a ELSE b
Max2(a, b) == IF a > b THEN a ELSE b

\* number of zero bits below the lowest set bit of a limb n # 0
NatTrailingZeros(n) == CHOOSE k \in 0..(LimbBits - 1) : n % 2^k = 0 /\ n % 2^(k + 1) # 0

\* number of zero bits below the lowest set bit of a, whose lowest nonzero
\* limb is limb i
TrailingZerosAt(a, i) == LimbBits * (i - 1) + NatTrailingZeros(a[i])

\* number of zero bits below the lowest set bit of a # 0
MagTrailingZeros(a) == TrailingZerosAt(a, SetMin({i \in 1..Len(a) : a[i] # 0}))

\* mag * 2^exp with the tz low zero bits of mag moved into the exponent
F64Odd(neg, mag, exp, tz) ==
  [kind |-> "fin", neg |-> neg, mag |-> MagShr(mag, tz), exp |-> exp + tz]

\* the finite double (-1)^neg * mag * 2^exp, which must be representable
F64Fin(neg, mag, exp) ==
  IF mag = << >> THEN F64Zero(neg) ELSE F64Odd(neg, mag, exp, MagTrailingZeros(mag))

\* quo, or quo + 1 when c, the comparison of the part dropped below quo with
\* a half, says that the nearest is above, or that both are as near and quo
\* is odd
RoundUp(quo, c) ==
  IF c > 0 \/ (c = 0 /\ MagIsOdd(quo)) THEN MagAdd(quo, <<1>>) ELSE quo

\* m * 2^e, which has at most F64MantBits bits, or infinity past f64::MAX
F64Pack(neg, m, e) ==
  IF e + MagBitLen(m) - 1 > F64MaxExp THEN F64Inf(neg) ELSE F64Fin(neg, m, e)

\* mag * 2^exp rounded to a multiple of 2^(exp + sh)
F64RoundBy(neg, mag, exp, sh) ==
  IF sh <= 0 THEN F64Pack(neg, mag, exp)
  ELSE F64Pack(neg,
               RoundUp(MagShr(mag, sh), MagCmp(MagLow(mag, sh), Pow2(sh - 1))),
               exp + sh)

\* the exponent of the last mantissa bit of a double whose leading bit is
\* 2^top: F64MantBits - 1 below it, F64MinQuantum for a subnormal
F64Quantum(top) == Max2(top - (F64MantBits - 1), F64MinQuantum)

\* the double nearest to (-1)^neg * mag * 2^exp, ties to even, overflow to
\* infinity, gradual underflow
F64Round(neg, mag, exp) ==
  IF mag = << >> THEN F64Zero(neg)
  ELSE F64RoundBy(neg, mag, exp, F64Quantum(exp + MagBitLen(mag) - 1) - exp)

\* `x as f64` for an integer x
F64FromInt(x) == F64Round(x.neg, x.mag, 0)

F64Negate(x) == IF x.kind = "nan" THEN x ELSE [x EXCEPT !.neg = ~x.neg]

F64Abs(x) == IF x.kind = "nan" THEN x ELSE [x EXCEPT !.neg = FALSE]

\* the signed integer x * 2^(-e) of a finite x with x.exp >= e
F64Scaled(x, e) == MkBig(x.neg, MagShl(x.mag, x.exp - e))

\* the double nearest to s * 2^e
F64RoundBig(s, e) == F64Round(s.neg, s.mag, e)

\* x + y of nonzero finite doubles, both multiples of 2^e
F64AddAt(x, y, e) == F64RoundBig(BigAdd(F64Scaled(x, e), F64Scaled(y, e)), e)

F64Add(x, y) ==
  IF x.kind = "nan" \/ y.kind = "nan" THEN F64NaN
  ELSE IF x.kind = "inf" /\ y.kind = "inf"
       THEN (IF x.neg = y.neg THEN x ELSE F64NaN)
  ELSE IF x.kind = "inf" THEN x
  ELSE IF y.kind = "inf" THEN y
  ELSE IF x.mag = << >> /\ y.mag = << >> THEN F64Zero(x.neg /\ y.neg)
  ELSE IF x.mag = << >> THEN y
  ELSE IF y.mag = << >> THEN x
  ELSE F64AddAt(x, y, Min2(x.exp, y.exp))

F64Sub(x, y) == F64Add(x, F64Negate(y))

F64Mul(x, y) ==
  IF x.kind = "nan" \/ y.kind = "nan" THEN F64NaN
  ELSE IF x.kind = "inf" \/ y.kind = "inf"
       THEN (IF (x.kind = "fin" /\ x.mag = << >>) \/ (y.kind = "fin" /\ y.mag = << >>)
             THEN F64NaN ELSE F64Inf(x.neg # y.neg))
  ELSE F64Round(x.neg # y.neg, MagMul(x.mag, y.mag), x.exp + y.exp)

\* twice the quotient, plus one when the remainder is not zero: the bit below
\* the quotient records that the exact value lies above it
StickyQuot(dm) == MagAdd(MagShl(dm.q, 1), IF dm.r = << >> THEN << >> ELSE <<1>>)

\* x / y of finite doubles, y # 0, from the quotient of x.mag * 2^k by y.mag
F64DivAt(x, y, k) ==
  F64Round(x.neg # y.neg, StickyQuot(MagDivMod(MagShl(x.mag, k), y.mag)),
           x.exp - y.exp - k - 1)

F64Div(x, y) ==
  IF x.kind = "nan" \/ y.kind = "nan" THEN F64NaN
  ELSE IF x.kind = "inf"
       THEN (IF y.kind = "inf" THEN F64NaN ELSE F64Inf(x.neg # y.neg))
  ELSE IF y.kind = "inf" THEN F64Zero(x.neg # y.neg)
  ELSE IF y.mag = << >>
       THEN (IF x.mag = << >> THEN F64NaN ELSE F64Inf(x.neg # y.neg))
  ELSE F64DivAt(x, y, F64MantBits + 3 + MagBitLen(y.mag))

\* x % y of nonzero finite doubles, both multiples of 2^e
F64RemAt(x, y, e) ==
  F64Fin(x.neg, MagDivMod(MagShl(x.mag, x.exp - e), MagShl(y.mag, y.exp - e)).r, e)

\* x % y: the exact remainder of the division truncated toward zero, with
\* the sign of x
F64Rem(x, y) ==
  IF x.kind = "nan" \/ y.kind = "nan" \/ x.kind = "inf" THEN F64NaN
  ELSE IF y.kind = "inf" THEN x
  ELSE IF y.mag = << >> THEN F64NaN
  ELSE IF x.mag = << >> THEN x
  ELSE F64RemAt(x, y, Min2(x.exp, y.exp))

\* -1, 0 or 1 as v is negative, a zero, positive
F64Sign(v) == IF v.kind = "fin" /\ v.mag = << >> THEN 0 ELSE IF v.neg THEN -1 ELSE 1

\* position of the leading bit; infinity lies above every double
F64Top(v) == IF v.kind = "inf" THEN F64MaxExp + 1 ELSE v.exp + MagBitLen(v.mag) - 1

\* |x| against |y| for finite doubles, both multiples of 2^e
F64MagCmpAt(x, y, e) == MagCmp(MagShl(x.mag, x.exp - e), MagShl(y.mag, y.exp - e))

\* |x| against |y| for nonzero doubles
F64MagCmp(x, y) ==
  IF F64Top(x) < F64Top(y) THEN -1
  ELSE IF F64Top(x) > F64Top(y) THEN 1
  ELSE IF x.kind = "inf" THEN 0
  ELSE F64MagCmpAt(x, y, Min2(x.exp, y.exp))

\* -1, 0 or 1 as x < y, x = y, x > y, neither a NaN
F64Cmp(x, y) ==
  IF F64Sign(x) < F64Sign(y) THEN -1
  ELSE IF F64Sign(x) > F64Sign(y) THEN 1
  ELSE IF F64Sign(x) = 0 THEN 0
  ELSE IF F64Sign(x) > 0 THEN F64MagCmp(x, y) ELSE F64MagCmp(y, x)

\* std::cmp::Ordering of a comparison c
Ordering(c) == IF c < 0 THEN "Less" ELSE IF c > 0 THEN "Greater" ELSE "Equal"

\* f64::partial_cmp: "Less", "Equal", "Greater", or "None" with a NaN
F64PartialCmp(x, y) ==
  IF x.kind = "nan" \/ y.kind = "nan" THEN "None" ELSE Ordering(F64Cmp(x, y))

\* f64::EPSILON = 2^-52
F64_EPSILON == [kind |-> "fin", neg |-> FALSE, mag |-> <<1>>, exp |-> 0 - 52]

(***************************************************************************)
(* rust_decimal::Decimal: neg, mag, scale standing for                     *)
(* (-1)^neg * mag / 10^scale with mag < 2^96 and scale <= 28.  Two         *)
(* decimals of different scale may be equal (1 and 1.0).  A checked        *)
(* operation gives None when the result has no such representation (its    *)
(* integral part needs more than 96 bits) or the divisor is zero; a result *)
(* with too many digits is rounded to the largest scale that fits.         *)
(***************************************************************************)
DecMantBits == 96
DecMaxScale == 28

Dec(neg, mag, scale) == [neg |-> neg, mag |-> mag, scale |-> scale]

\* Decimal::from(x) for an integer x of at most 64 bits
DecFromInt(x) == Dec(x.neg, x.mag, 0)

\* the signed integer x * 10^s of a decimal x with x.scale <= s
DecScaled(x, s) == MkBig(x.neg, MagMul(x.mag, MagPow10(s - x.scale)))

\* -1, 0 or 1 by value, both of scale at most s
DecCmpAt(x, y, s) == BigCmp(DecScaled(x, s), DecScaled(y, s))

\* -1, 0 or 1 by value
DecCmp(x, y) == DecCmpAt(x, y, Max2(x.scale, y.scale))

\* the quotient dm.q of a division by p, rounded by its remainder dm.r
RoundQuot(dm, p) == RoundUp(dm.q, MagCmp(MagAdd(dm.r, dm.r), p))

\* a / p rounded to nearest, ties to even
MagRoundDiv(a, p) == RoundQuot(MagDivMod(a, p), p)

\* mag / 10^k rounded to nearest, ties to even
MagRoundDiv10(mag, k) ==
  IF k = 0 \/ Len(mag) = 0 THEN mag ELSE MagRoundDiv(mag, MagPow10(k))

\* the decimal of the mantissa of the largest scale among ok, a set of
\* [scale, mag]; None when there is none
DecFitBest(neg, ok) ==
  IF ok = {} THEN None
  ELSE LET best == CHOOSE c \in ok : \A d \in ok : d.scale <= c.scale
       IN  Some(Dec(neg, best.mag, best.scale))

\* the decimal of the exact value (-1)^neg * mag / 10^scale, at the largest
\* scale at which the mantissa fits; None when none does
DecFit(neg, mag, scale) ==
  DecFitBest(neg /\ mag # << >>,
             {c \in {[scale |-> sc, mag |-> MagRoundDiv10(mag, scale - sc)] :
                       sc \in 0..Min2(scale, DecMaxScale)} :
                MagBitLen(c.mag) <= DecMantBits})

\* the decimal of the exact value r / 10^s
DecFitBig(r, s) == DecFit(r.neg, r.mag, s)

\* x + y, both of scale at most s
DecAddAt(x, y, s) == DecFitBig(BigAdd(DecScaled(x, s), DecScaled(y, s)), s)

DecCheckedAdd(x, y) == DecAddAt(x, y, Max2(x.scale, y.scale))

DecCheckedSub(x, y) == DecCheckedAdd(x, Dec(~y.neg, y.mag, y.scale))

DecCheckedMul(x, y) ==
  DecFit(x.neg # y.neg, MagMul(x.mag, y.mag), x.scale + y.scale)

\* num / den is the quotient times 10^DecMaxScale; its mantissa after
\* dropping d of the DecMaxScale decimals
DivCut(num, den, d) == MagRoundDiv(num, MagMul(den, MagPow10(d)))

\* dropping d decimals loses no nonzero digit
DivExact(num, den, d) == MagDivMod(num, MagMul(den, MagPow10(d))).r = << >>

\* binary search for the first d of lo..hi at which the mantissa fits
RECURSIVE FirstFits(_, _, _, _)
FirstFits(num, den, lo, hi) ==
  IF lo = hi THEN lo
  ELSE IF MagBitLen(DivCut(num, den, (lo + hi) \div 2)) <= DecMantBits
       THEN FirstFits(num, den, lo, (lo + hi) \div 2)
       ELSE FirstFits(num, den, (lo + hi) \div 2 + 1, hi)

\* binary search for the first d of lo..hi that loses a nonzero digit
RECURSIVE FirstInexact(_, _, _, _)
FirstInexact(num, den, lo, hi) ==
  IF lo = hi THEN lo
  ELSE IF ~DivExact(num, den, (lo + hi) \div 2)
       THEN FirstInexact(num, den, lo, (lo + hi) \div 2)
       ELSE FirstInexact(num, den, (lo + hi) \div 2 + 1, hi)

\* the decimal of the mantissa m left after dropping drop decimals
DivResult(neg, m, drop) == Some(Dec(neg /\ m # << >>, m, DecMaxScale - drop))

\* the quotient with drop decimals dropped
DivAt(neg, num, den, drop) == DivResult(neg, DivCut(num, den, drop), drop)

\* the quotient at the smallest scale at which it is exact, else rounded at
\* the largest scale that fits; None when its integral part does not fit
DivQuot(neg, num, den) ==
  IF MagBitLen(DivCut(num, den, DecMaxScale)) > DecMantBits THEN None
  ELSE DivAt(neg, num, den,
             Max2(FirstInexact(num, den, 0, DecMaxScale + 1) - 1,
                  FirstFits(num, den, 0, DecMaxScale)))

\* x / y = (x.mag * 10^(y.scale + DecMaxScale)) / (y.mag * 10^x.scale)
\*         / 10^DecMaxScale
DecCheckedDiv(x, y) ==
  IF y.mag = << >> THEN None
  ELSE DivQuot(x.neg # y.neg,
               MagMul(x.mag, MagPow10(y.scale + DecMaxScale)),
               MagMul(y.mag, MagPow10(x.scale)))

\* x % y, both of scale at most s
DecRemAt(x, y, s) == DecFitBig(BigRem(DecScaled(x, s), DecScaled(y, s)), s)

\* the remainder of the division truncated toward zero, with the sign of x
DecCheckedRem(x, y) ==
  IF y.mag = << >> THEN None ELSE DecRemAt(x, y, Max2(x.scale, y.scale))

(***************************************************************************)
(* Text.  A String is a sequence of characters, each a one-character       *)
(* string, so that parsing and formatting are computed on the characters.  *)
(***************************************************************************)
DigitChars == <<"0", "1", "2", "3", "4", "5", "6", "7", "8", "9">>

IsDigit(c) == \E d \in 1..10 : DigitChars[d] = c

\* the value of a digit character
DigitOf(c) == (CHOOSE d \in 1..10 : DigitChars[d] = c) - 1

\* char::to_ascii_lowercase on the letters that the float grammar names
Lower(c) ==
  CASE c = "I" -> "i" [] c = "N" -> "n" [] c = "F" -> "f" [] c = "T" -> "t"
    [] c = "Y" -> "y" [] c = "A" -> "a" [] c = "E" -> "e" [] OTHER -> c

ToLower(t) == [i \in 1..Len(t) |-> Lower(t[i])]

AllDigits(t) == \A i \in 1..Len(t) : IsDigit(t[i])

\* the number that the digits lo..hi of t spell; zero for no digit
RECURSIVE MagOfDigits(_, _, _)
MagOfDigits(t, lo, hi) ==
  IF lo > hi THEN << >>
  ELSE IF lo = hi THEN MagOfNat(DigitOf(t[lo]))
  ELSE MagAdd(MagMul(MagPow10(hi - (lo + hi) \div 2),
                     MagOfDigits(t, lo, (lo + hi) \div 2)),
              MagOfDigits(t, (lo + hi) \div 2 + 1, hi))

\* the n digits of qr.q then the k digits of qr.r
RECURSIVE DigitsOfMag(_, _)
DigitsOfSplit(qr, n, k) == DigitsOfMag(qr.q, n) \o DigitsOfMag(qr.r, k)

\* the n >= 1 decimal digits of m < 10^n, zeros in front
DigitsOfMag(m, n) ==
  IF n = 1 THEN <<DigitChars[Limb(m, 1) + 1]>>
  ELSE DigitsOfSplit(MagDivMod(m, MagPow10(n - n \div 2)), n \div 2, n - n \div 2)

\* the number of decimal digits of m > 0, from t, the digits of a power of
\* two of as many bits as m, which is one too few when m >= 10^t
DecLenBy(m, t) == IF MagCmp(m, MagPow10(t)) < 0 THEN t ELSE t + 1

\* the number of decimal digits of m; 0 for zero
DecLen(m) == IF Len(m) = 0 THEN 0 ELSE DecLenBy(m, (MagBitLen(m) * 1233) \div 4096)

\* the text of a natural number
NatToString(m) == IF Len(m) = 0 THEN <<"0">> ELSE DigitsOfMag(m, DecLen(m))

\* i64::to_string
I64ToString(x) == (IF x.neg THEN <<"-">> ELSE << >>) \o NatToString(x.mag)

\* 1 when t starts with a sign, else 0
SignLen(t) == IF Len(t) > 0 /\ (t[1] = "+" \/ t[1] = "-") THEN 1 ELSE 0

\* t without its sign
Unsigned(t) == SubSeq(t, SignLen(t) + 1, Len(t))

IsNegative(t) == Len(t) > 0 /\ t[1] = "-"

\* the integer x when it is an i64
FitI64(x) == IF InRange(x, 64) THEN Some(x) ELSE None

\* str::parse::<i64>: an optional sign and one or more digits, of a value that
\* fits; Some(value) for Ok, None for Err
parse_i64(t) ==
  IF Len(Unsigned(t)) = 0 \/ ~AllDigits(Unsigned(t)) THEN None
  ELSE FitI64(MkBig(IsNegative(t), MagOfDigits(t, SignLen(t) + 1, Len(t))))

\* the double nearest to num * 2^(-k) / den, k large enough for the quotient
\* to have more bits than a mantissa
F64FromRatioAt(neg, num, den, k) ==
  F64Round(neg, StickyQuot(MagDivMod(MagShl(num, k), den)), 0 - k - 1)

\* the double nearest to num / den, den > 0
F64FromRatio(neg, num, den) ==
  IF Len(num) = 0 THEN F64Zero(neg)
  ELSE F64FromRatioAt(neg, num, den,
                      Max2(0, F64MantBits + 3 + MagBitLen(den) - MagBitLen(num)))

\* beyond these powers of ten every double is infinite, or zero
F64MaxPow10 == 400

\* the double nearest to mag * 10^e10
F64FromDecimal(neg, mag, e10) ==
  IF Len(mag) = 0 THEN F64Zero(neg)
  ELSE IF e10 + DecLen(mag) > F64MaxPow10 THEN F64Inf(neg)
  ELSE IF e10 + DecLen(mag) < 0 - F64MaxPow10 THEN F64Zero(neg)
  ELSE IF e10 >= 0 THEN F64Round(neg, MagMul(mag, MagPow10(e10)), 0)
  ELSE F64FromRatio(neg, mag, MagPow10(0 - e10))

\* the first place of s that holds a character of cs, Len(s) + 1 when none does
FirstIndex(s, cs) == SetMin({i \in 1..Len(s) : s[i] \in cs} \cup {Len(s) + 1})

\* the value of the digits t as a TLC integer, cut at a value beyond every
\* exponent of a double
SmallNat(m) == IF Len(m) = 0 THEN 0 ELSE IF Len(m) > 1 THEN Base ELSE m[1]

\* the exponent that the text t spells: an optional sign and digits
ExponentOf(t) ==
  (IF IsNegative(t) THEN -1 ELSE 1) * SmallNat(MagOfDigits(t, SignLen(t) + 1, Len(t)))

\* the double of the decimal ip.fp with the exponent text expt (after an e
\* when hasExp), None when the text is no number
ParseDecimal(neg, ip, fp, hasExp, expt) ==
  IF \/ ~AllDigits(ip) \/ ~AllDigits(fp) \/ Len(ip) + Len(fp) = 0
     \/ (hasExp /\ (Len(Unsigned(expt)) = 0 \/ ~AllDigits(Unsigned(expt))))
  THEN None
  ELSE Some(F64FromDecimal(neg, MagOfDigits(ip \o fp, 1, Len(ip) + Len(fp)),
                           (IF hasExp THEN ExponentOf(expt) ELSE 0) - Len(fp)))

\* the mantissa text mant split at its point, which is at place dpos
ParseMantissa(neg, mant, dpos, hasExp, expt) ==
  ParseDecimal(neg, SubSeq(mant, 1, dpos - 1), SubSeq(mant, dpos + 1, Len(mant)),
               hasExp, expt)

\* the number text s split at its exponent mark, which is at place epos
ParseNumber(neg, s, epos) ==
  ParseMantissa(neg, SubSeq(s, 1, epos - 1),
                FirstIndex(SubSeq(s, 1, epos - 1), {"."}),
                epos <= Len(s), SubSeq(s, epos + 1, Len(s)))

\* the double of the unsigned lower-case text s
ParseUnsigned(neg, s) ==
  IF s = <<"i", "n", "f">> \/ s = <<"i", "n", "f", "i", "n", "i", "t", "y">>
  THEN Some(F64Inf(neg))
  ELSE IF s = <<"n", "a", "n">> THEN Some(F64NaN)
  ELSE ParseNumber(neg, s, FirstIndex(s, {"e"}))

\* str::parse::<f64>: an optional sign, then inf, infinity or nan in any case,
\* or digits with an optional point and an optional exponent; the value is
\* the nearest double.  Some(value) for Ok, None for Err
parse_f64(t) == ParseUnsigned(IsNegative(t), ToLower(Unsigned(t)))

\* -1, 0 or 1 as num / den is below, at, above 10^j
CmpPow10(num, den, j) ==
  MagCmp(MagMul(num, MagPow10(Max2(0 - j, 0))), MagMul(den, MagPow10(Max2(j, 0))))

\* the k with 10^(k - 1) <= num / den < 10^k, which is within 2 of est
DecExponentNear(num, den, est) ==
  1 + SetMax({j \in (est - 2)..(est + 1) : CmpPow10(num, den, j) >= 0})

\* the k with 10^(k - 1) <= num / den < 10^k for num, den > 0
DecExponent(num, den) ==
  DecExponentNear(num, den, ((MagBitLen(num) - MagBitLen(den)) * 1233) \div 4096)

\* the candidates c * 10^e10 among qr.q and qr.q + 1 that read back as the
\* double v, where qr is the quotient and remainder of v / 10^e10 by d; each
\* with its distance from v, in units of 1 / (2 * d)
RoundTrips(v, qr, d, e10) ==
  {c \in {[c |-> qr.q, e10 |-> e10, far |-> MagCmp(MagAdd(qr.r, qr.r), d)]}
         \cup (IF Len(qr.r) = 0 THEN {}
               ELSE {[c |-> MagAdd(qr.q, <<1>>), e10 |-> e10,
                      far |-> 0 - MagCmp(MagAdd(qr.r, qr.r), d)]}) :
     F64FromDecimal(FALSE, c.c, c.e10) = v}

\* the decimals of n digits next to v = num / den, of decimal exponent k, that
\* read back as v
Candidates(v, num, den, k, n) ==
  RoundTrips(v,
             MagDivMod(MagMul(num, MagPow10(Max2(n - k, 0))),
                       MagMul(den, MagPow10(Max2(k - n, 0)))),
             MagMul(den, MagPow10(Max2(k - n, 0))),
             k - n)

\* binary search for the fewest digits lo..hi with a decimal that reads back
RECURSIVE FewestDigits(_, _, _, _, _, _)
FewestDigits(v, num, den, k, lo, hi) ==
  IF lo = hi THEN lo
  ELSE IF Candidates(v, num, den, k, (lo + hi) \div 2) # {}
       THEN FewestDigits(v, num, den, k, lo, (lo + hi) \div 2)
       ELSE FewestDigits(v, num, den, k, (lo + hi) \div 2 + 1, hi)

\* digits enough to tell any two doubles apart
F64MaxDigits == 17

\* the nearest of the candidates cs; of two as near, the even one
Nearest(cs) ==
  CHOOSE c \in cs : \A d \in cs :
    c.far < d.far \/ c = d \/ (c.far = d.far /\ ~MagIsOdd(c.c))

\* the shortest decimal that reads back as v = num / den, the nearest to v of
\* those
ShortestAt(v, num, den, k) ==
  Nearest(Candidates(v, num, den, k,
                     FewestDigits(v, num, den, k, 1, F64MaxDigits)))

Shortest(v, num, den) == ShortestAt(v, num, den, DecExponent(num, den))

Zeros(n) == [i \in 1..n |-> "0"]

\* the digits ds with the point after place p, zeros added where p is outside
PlacePoint(ds, p) ==
  IF p <= 0 THEN <<"0", ".">> \o Zeros(0 - p) \o ds
  ELSE IF p < Len(ds) THEN SubSeq(ds, 1, p) \o <<".">> \o SubSeq(ds, p + 1, Len(ds))
  ELSE ds \o Zeros(p - Len(ds))

\* ds without the zeros at its end, ds not all zeros
StripZeros(ds) == SubSeq(ds, 1, SetMax({i \in 1..Len(ds) : ds[i] # "0"}))

\* the text of the decimal that the digits ds spell, times 10^e10
DecimalToString(ds, e10) == PlacePoint(StripZeros(ds), Len(ds) + e10)

\* the text of the positive decimal c
CandidateToString(c) == DecimalToString(NatToString(c.c), c.e10)

\* f64::to_string (Display without a precision): NaN, inf, or the shortest
\* decimal that reads back as v, never in exponent form, the sign first
F64ToString(v) ==
  IF v.kind = "nan" THEN <<"N", "a", "N">>
  ELSE (IF v.neg THEN <<"-">> ELSE << >>)
       \o (IF v.kind = "inf" THEN <<"i", "n", "f">>
           ELSE IF Len(v.mag) = 0 THEN <<"0">>
           ELSE CandidateToString(Shortest(F64Abs(v),
                                           MagShl(v.mag, Max2(v.exp, 0)),
                                           Pow2(Max2(0 - v.exp, 0)))))

(***************************************************************************)
(* Value, ValueError and Result                                            *)
(***************************************************************************)
IntVal(tag, v) == [tag |-> tag, v |-> v]
I8(v) == IntVal("I8", v)
I16(v) == IntVal("I16", v)
I32(v) == IntVal("I32", v)
I64(v) == IntVal("I64", v)
I128(v) == IntVal("I128", v)
F64(v) == [tag |-> "F64", v |-> v]
Decimal(v) == [tag |-> "Decimal", v |-> v]
Bool(b) == [tag |-> "Bool", b |-> b]
Str(s) == [tag |-> "Str", s |-> s]
Interval(unit, n) == [tag |-> "Interval", unit |-> unit, n |-> n]
Null == [tag |-> "Null"]

Ok(v) == [tag |-> "Ok", value |-> v]

BinaryOperationOverflow(l, r, operator) ==
  [tag |-> "Err", kind |-> "BinaryOperationOverflow",
   lhs |-> l, rhs |-> r, operator |-> operator]

NonNumericMathOperation(l, operator, r) ==
  [tag |-> "Err", kind |-> "NonNumericMathOperation",
   lhs |-> l, operator |-> operator, rhs |-> r]

\* the call does not return: the thread unwinds with a panic
Panic(msg) == [tag |-> "Panic", msg |-> msg]

\* opt.ok_or_else(|| err).map(variant)
OkOrElse(opt, tag, err) == IF opt.some THEN Ok([tag |-> tag, v |-> opt.v]) ELSE err

\* i16 * Interval: the interval scaled by the integer
IntervalMul(l, r) == Interval(r.unit, BigMul(l, r.n))

\* Decimal + Decimal, `checked_add(..).expect("Addition overflowed")`: the
\* sum, or a panic where checked_add gives None
DecAdd(sum) ==
  IF sum.some THEN Ok(Decimal(sum.v)) ELSE Panic("Addition overflowed")

(***************************************************************************)
(* impl PartialEq<Value> for i16, impl PartialOrd<Value> for i16           *)
(* lhs is an integer of the i16 range, rhs a Value.                        *)
(***************************************************************************)
\* eq whose I32 arm narrows rhs (`lhs == (*rhs as i16)`) instead of widening lhs
eq_narrowing(lhs, other) ==
  LET l == Big(lhs) IN
  CASE other.tag = "I8"      -> l = AsInt(other.v, 16)
    [] other.tag = "I16"     -> l = other.v
    [] other.tag = "I32"     -> l = AsInt(other.v, 16)
    [] other.tag = "I64"     -> AsInt(l, 64) = other.v
    [] other.tag = "I128"    -> AsInt(l, 128) = other.v
    [] other.tag = "F64"     ->
         F64PartialCmp(F64Abs(F64Sub(F64FromInt(l), other.v)), F64_EPSILON) = "Less"
    [] other.tag = "Decimal" -> DecCmp(DecFromInt(l), other.v) = 0
    [] OTHER                 -> FALSE

eq(lhs, other) ==
  LET l == Big(lhs) IN
  CASE other.tag = "I8"      -> l = AsInt(other.v, 16)
    [] other.tag = "I16"     -> l = other.v
    [] other.tag = "I32"     -> AsInt(l, 32) = other.v
    [] other.tag = "I64"     -> AsInt(l, 64) = other.v
    [] other.tag = "I128"    -> AsInt(l, 128) = other.v
    [] other.tag = "F64"     ->
         F64PartialCmp(F64Abs(F64Sub(F64FromInt(l), other.v)), F64_EPSILON) = "Less"
    [] other.tag = "Decimal" -> DecCmp(DecFromInt(l), other.v) = 0
    [] OTHER                 -> FALSE

\* partial_cmp whose I8 arm narrows lhs (`(*self as i8).partial_cmp(rhs)`)
partial_cmp_narrowing(lhs, other) ==
  LET l == Big(lhs) IN
  CASE other.tag = "I8"      -> Ordering(BigCmp(AsInt(l, 8), other.v))
    [] other.tag = "I16"     -> Ordering(BigCmp(l, other.v))
    [] other.tag = "I32"     -> Ordering(BigCmp(AsInt(l, 32), other.v))
    [] other.tag = "I64"     -> Ordering(BigCmp(AsInt(l, 64), other.v))
    [] other.tag = "I128"    -> Ordering(BigCmp(AsInt(l, 128), other.v))
    [] other.tag = "F64"     -> F64PartialCmp(F64FromInt(l), other.v)
    [] other.tag = "Decimal" -> Ordering(DecCmp(DecFromInt(l), other.v))
    [] OTHER                 -> "None"

partial_cmp(lhs, other) ==
  LET l == Big(lhs) IN
  CASE other.tag = "I8"      -> Ordering(BigCmp(l, AsInt(other.v, 16)))
    [] other.tag = "I16"     -> Ordering(BigCmp(l, other.v))
    [] other.tag = "I32"     -> Ordering(BigCmp(AsInt(l, 32), other.v))
    [] other.tag = "I64"     -> Ordering(BigCmp(AsInt(l, 64), other.v))
    [] other.tag = "I128"    -> Ordering(BigCmp(AsInt(l, 128), other.v))
    [] other.tag = "F64"     -> F64PartialCmp(F64FromInt(l), other.v)
    [] other.tag = "Decimal" -> Ordering(DecCmp(DecFromInt(l), other.v))
    [] OTHER                 -> "None"

(***************************************************************************)
(* impl TryBinaryOperator for i16                                          *)
(***************************************************************************)
try_add(lhs, rhs) ==
  LET l == Big(lhs) IN
  CASE rhs.tag = "I8"      -> OkOrElse(checked_add(l, AsInt(rhs.v, 16), 16), "I16",
                                BinaryOperationOverflow(I16(l), I8(rhs.v), "Add"))
    [] rhs.tag = "I16"     -> OkOrElse(checked_add(l, rhs.v, 16), "I16",
                                BinaryOperationOverflow(I16(l), I16(rhs.v), "Add"))
    [] rhs.tag = "I32"     -> OkOrElse(checked_add(AsInt(l, 32), rhs.v, 32), "I32",
                                BinaryOperationOverflow(I16(l), I32(rhs.v), "Add"))
    [] rhs.tag = "I64"     -> OkOrElse(checked_add(AsInt(l, 64), rhs.v, 64), "I64",
                                BinaryOperationOverflow(I16(l), I64(rhs.v), "Add"))
    [] rhs.tag = "I128"    -> OkOrElse(checked_add(AsInt(l, 128), rhs.v, 128), "I128",
                                BinaryOperationOverflow(I16(l), I128(rhs.v), "Add"))
    [] rhs.tag = "F64"     -> Ok(F64(F64Add(F64FromInt(l), rhs.v)))
    [] rhs.tag = "Decimal" -> DecAdd(DecCheckedAdd(DecFromInt(l), rhs.v))
    [] rhs.tag = "Null"    -> Ok(Null)
    [] OTHER               -> NonNumericMathOperation(I16(l), "Add", rhs)

\* try_subtract whose I8 arm was copied from try_add with its operator
try_subtract_as_add(lhs, rhs) ==
  LET l == Big(lhs) IN
  CASE rhs.tag = "I8"      -> OkOrElse(checked_sub(l, AsInt(rhs.v, 16), 16), "I16",
                                BinaryOperationOverflow(I16(l), I8(rhs.v), "Add"))
    [] rhs.tag = "I16"     -> OkOrElse(checked_sub(l, rhs.v, 16), "I16",
                                BinaryOperationOverflow(I16(l), I16(rhs.v), "Subtract"))
    [] rhs.tag = "I32"     -> OkOrElse(checked_sub(AsInt(l, 32), rhs.v, 32), "I32",
                                BinaryOperationOverflow(I16(l), I32(rhs.v), "Subtract"))
    [] rhs.tag = "I64"     -> OkOrElse(checked_sub(AsInt(l, 64), rhs.v, 64), "I64",
                                BinaryOperationOverflow(I16(l), I64(rhs.v), "Subtract"))
    [] rhs.tag = "I128"    -> OkOrElse(checked_sub(AsInt(l, 128), rhs.v, 128), "I128",
                                BinaryOperationOverflow(I16(l), I128(rhs.v), "Subtract"))
    [] rhs.tag = "F64"     -> Ok(F64(F64Sub(F64FromInt(l), rhs.v)))
    [] rhs.tag = "Decimal" -> OkOrElse(DecCheckedSub(DecFromInt(l), rhs.v), "Decimal",
                                BinaryOperationOverflow(I16(l), Decimal(rhs.v), "Subtract"))
    [] rhs.tag = "Null"    -> Ok(Null)
    [] OTHER               -> NonNumericMathOperation(I16(l), "Subtract", rhs)

try_subtract(lhs, rhs) ==
  LET l == Big(lhs) IN
  CASE rhs.tag = "I8"      -> OkOrElse(checked_sub(l, AsInt(rhs.v, 16), 16), "I16",
                                BinaryOperationOverflow(I16(l), I8(rhs.v), "Subtract"))
    [] rhs.tag = "I16"     -> OkOrElse(checked_sub(l, rhs.v, 16), "I16",
                                BinaryOperationOverflow(I16(l), I16(rhs.v), "Subtract"))
    [] rhs.tag = "I32"     -> OkOrElse(checked_sub(AsInt(l, 32), rhs.v, 32), "I32",
                                BinaryOperationOverflow(I16(l), I32(rhs.v), "Subtract"))
    [] rhs.tag = "I64"     -> OkOrElse(checked_sub(AsInt(l, 64), rhs.v, 64), "I64",
                                BinaryOperationOverflow(I16(l), I64(rhs.v), "Subtract"))
    [] rhs.tag = "I128"    -> OkOrElse(checked_sub(AsInt(l, 128), rhs.v, 128), "I128",
                                BinaryOperationOverflow(I16(l), I128(rhs.v), "Subtract"))
    [] rhs.tag = "F64"     -> Ok(F64(F64Sub(F64FromInt(l), rhs.v)))
    [] rhs.tag = "Decimal" -> OkOrElse(DecCheckedSub(DecFromInt(l), rhs.v), "Decimal",
                                BinaryOperationOverflow(I16(l), Decimal(rhs.v), "Subtract"))
    [] rhs.tag = "Null"    -> Ok(Null)
    [] OTHER               -> NonNumericMathOperation(I16(l), "Subtract", rhs)

\* try_multiply without the Interval arm
try_multiply_no_interval(lhs, rhs) ==
  LET l == Big(lhs) IN
  CASE rhs.tag = "I8"      -> OkOrElse(checked_mul(l, AsInt(rhs.v, 16), 16), "I16",
                                BinaryOperationOverflow(I16(l), I8(rhs.v), "Multiply"))
    [] rhs.tag = "I16"     -> OkOrElse(checked_mul(l, rhs.v, 16), "I16",
                                BinaryOperationOverflow(I16(l), I16(rhs.v), "Multiply"))
    [] rhs.tag = "I32"     -> OkOrElse(checked_mul(AsInt(l, 32), rhs.v, 32), "I32",
                                BinaryOperationOverflow(I16(l), I32(rhs.v), "Multiply"))
    [] rhs.tag = "I64"     -> OkOrElse(checked_mul(AsInt(l, 64), rhs.v, 64), "I64",
                                BinaryOperationOverflow(I16(l), I64(rhs.v), "Multiply"))
    [] rhs.tag = "I128"    -> OkOrElse(checked_mul(AsInt(l, 128), rhs.v, 128), "I128",
                                BinaryOperationOverflow(I16(l), I128(rhs.v), "Multiply"))
    [] rhs.tag = "F64"     -> Ok(F64(F64Mul(F64FromInt(l), rhs.v)))
    [] rhs.tag = "Decimal" -> OkOrElse(DecCheckedMul(DecFromInt(l), rhs.v), "Decimal",
                                BinaryOperationOverflow(I16(l), Decimal(rhs.v), "Multiply"))
    [] rhs.tag = "Null"    -> Ok(Null)
    [] OTHER               -> NonNumericMathOperation(I16(l), "Multiply", rhs)

try_multiply(lhs, rhs) ==
  LET l == Big(lhs) IN
  CASE rhs.tag = "I8"      -> OkOrElse(checked_mul(l, AsInt(rhs.v, 16), 16), "I16",
                                BinaryOperationOverflow(I16(l), I8(rhs.v), "Multiply"))
    [] rhs.tag = "I16"     -> OkOrElse(checked_mul(l, rhs.v, 16), "I16",
                                BinaryOperationOverflow(I16(l), I16(rhs.v), "Multiply"))
    [] rhs.tag = "I32"     -> OkOrElse(checked_mul(AsInt(l, 32), rhs.v, 32), "I32",
                                BinaryOperationOverflow(I16(l), I32(rhs.v), "Multiply"))
    [] rhs.tag = "I64"     -> OkOrElse(checked_mul(AsInt(l, 64), rhs.v, 64), "I64",
                                BinaryOperationOverflow(I16(l), I64(rhs.v), "Multiply"))
    [] rhs.tag = "I128"    -> OkOrElse(checked_mul(AsInt(l, 128), rhs.v, 128), "I128",
                                BinaryOperationOverflow(I16(l), I128(rhs.v), "Multiply"))
    [] rhs.tag = "F64"     -> Ok(F64(F64Mul(F64FromInt(l), rhs.v)))
    [] rhs.tag = "Decimal" -> OkOrElse(DecCheckedMul(DecFromInt(l), rhs.v), "Decimal",
                                BinaryOperationOverflow(I16(l), Decimal(rhs.v), "Multiply"))
    [] rhs.tag = "Interval" -> Ok(IntervalMul(l, rhs))
    [] rhs.tag = "Null"    -> Ok(Null)
    [] OTHER               -> NonNumericMathOperation(I16(l), "Multiply", rhs)

\* try_divide that reports a zero f64 divisor like a zero integer divisor
try_divide_f64_zero(lhs, rhs) ==
  LET l == Big(lhs) IN
  CASE rhs.tag = "I8"      -> OkOrElse(checked_div(l, AsInt(rhs.v, 16), 16), "I16",
                                BinaryOperationOverflow(I16(l), I8(rhs.v), "Divide"))
    [] rhs.tag = "I16"     -> OkOrElse(checked_div(l, rhs.v, 16), "I16",
                                BinaryOperationOverflow(I16(l), I16(rhs.v), "Divide"))
    [] rhs.tag = "I32"     -> OkOrElse(checked_div(AsInt(l, 32), rhs.v, 32), "I32",
                                BinaryOperationOverflow(I16(l), I32(rhs.v), "Divide"))
    [] rhs.tag = "I64"     -> OkOrElse(checked_div(AsInt(l, 64), rhs.v, 64), "I64",
                                BinaryOperationOverflow(I16(l), I64(rhs.v), "Divide"))
    [] rhs.tag = "I128"    -> OkOrElse(checked_div(AsInt(l, 128), rhs.v, 128), "I128",
                                BinaryOperationOverflow(I16(l), I128(rhs.v), "Divide"))
    [] rhs.tag = "F64"     ->
         IF rhs.v.kind = "fin" /\ rhs.v.mag = << >>
         THEN BinaryOperationOverflow(I16(l), F64(rhs.v), "Divide")
         ELSE Ok(F64(F64Div(F64FromInt(l), rhs.v)))
    [] rhs.tag = "Decimal" -> OkOrElse(DecCheckedDiv(DecFromInt(l), rhs.v), "Decimal",
                                BinaryOperationOverflow(I16(l), Decimal(rhs.v), "Divide"))
    [] rhs.tag = "Null"    -> Ok(Null)
    [] OTHER               -> NonNumericMathOperation(I16(l), "Divide", rhs)

try_divide(lhs, rhs) ==
  LET l == Big(lhs) IN
  CASE rhs.tag = "I8"      -> OkOrElse(checked_div(l, AsInt(rhs.v, 16), 16), "I16",
                                BinaryOperationOverflow(I16(l), I8(rhs.v), "Divide"))
    [] rhs.tag = "I16"     -> OkOrElse(checked_div(l, rhs.v, 16), "I16",
                                BinaryOperationOverflow(I16(l), I16(rhs.v), "Divide"))
    [] rhs.tag = "I32"     -> OkOrElse(checked_div(AsInt(l, 32), rhs.v, 32), "I32",
                                BinaryOperationOverflow(I16(l), I32(rhs.v), "Divide"))
    [] rhs.tag = "I64"     -> OkOrElse(checked_div(AsInt(l, 64), rhs.v, 64), "I64",
                                BinaryOperationOverflow(I16(l), I64(rhs.v), "Divide"))
    [] rhs.tag = "I128"    -> OkOrElse(checked_div(AsInt(l, 128), rhs.v, 128), "I128",
                                BinaryOperationOverflow(I16(l), I128(rhs.v), "Divide"))
    [] rhs.tag = "F64"     -> Ok(F64(F64Div(F64FromInt(l), rhs.v)))
    [] rhs.tag = "Decimal" -> OkOrElse(DecCheckedDiv(DecFromInt(l), rhs.v), "Decimal",
                                BinaryOperationOverflow(I16(l), Decimal(rhs.v), "Divide"))
    [] rhs.tag = "Null"    -> Ok(Null)
    [] OTHER               -> NonNumericMathOperation(I16(l), "Divide", rhs)

\* try_modulo without the Null arm
try_modulo_no_null(lhs, rhs) ==
  LET l == Big(lhs) IN
  CASE rhs.tag = "I8"      -> OkOrElse(checked_rem(l, AsInt(rhs.v, 16), 16), "I16",
                                BinaryOperationOverflow(I16(l), I8(rhs.v), "Modulo"))
    [] rhs.tag = "I16"     -> OkOrElse(checked_rem(l, rhs.v, 16), "I16",
                                BinaryOperationOverflow(I16(l), I16(rhs.v), "Modulo"))
    [] rhs.tag = "I32"     -> OkOrElse(checked_rem(AsInt(l, 32), rhs.v, 32), "I32",
                                BinaryOperationOverflow(I16(l), I32(rhs.v), "Modulo"))
    [] rhs.tag = "I64"     -> OkOrElse(checked_rem(AsInt(l, 64), rhs.v, 64), "I64",
                                BinaryOperationOverflow(I16(l), I64(rhs.v), "Modulo"))
    [] rhs.tag = "I128"    -> OkOrElse(checked_rem(AsInt(l, 128), rhs.v, 128), "I128",
                                BinaryOperationOverflow(I16(l), I128(rhs.v), "Modulo"))
    [] rhs.tag = "F64"     -> Ok(F64(F64Rem(F64FromInt(l), rhs.v)))
    [] rhs.tag = "Decimal" -> OkOrElse(DecCheckedRem(DecFromInt(l), rhs.v), "Decimal",
                                BinaryOperationOverflow(I16(l), Decimal(rhs.v), "Modulo"))
    [] OTHER               -> NonNumericMathOperation(I16(l), "Modulo", rhs)

try_modulo(lhs, rhs) ==
  LET l == Big(lhs) IN
  CASE rhs.tag = "I8"      -> OkOrElse(checked_rem(l, AsInt(rhs.v, 16), 16), "I16",
                                BinaryOperationOverflow(I16(l), I8(rhs.v), "Modulo"))
    [] rhs.tag = "I16"     -> OkOrElse(checked_rem(l, rhs.v, 16), "I16",
                                BinaryOperationOverflow(I16(l), I16(rhs.v), "Modulo"))
    [] rhs.tag = "I32"     -> OkOrElse(checked_rem(AsInt(l, 32), rhs.v, 32), "I32",
                                BinaryOperationOverflow(I16(l), I32(rhs.v), "Modulo"))
    [] rhs.tag = "I64"     -> OkOrElse(checked_rem(AsInt(l, 64), rhs.v, 64), "I64",
                                BinaryOperationOverflow(I16(l), I64(rhs.v), "Modulo"))
    [] rhs.tag = "I128"    -> OkOrElse(checked_rem(AsInt(l, 128), rhs.v, 128), "I128",
                                BinaryOperationOverflow(I16(l), I128(rhs.v), "Modulo"))
    [] rhs.tag = "F64"     -> Ok(F64(F64Rem(F64FromInt(l), rhs.v)))
    [] rhs.tag = "Decimal" -> OkOrElse(DecCheckedRem(DecFromInt(l), rhs.v), "Decimal",
                                BinaryOperationOverflow(I16(l), Decimal(rhs.v), "Modulo"))
    [] rhs.tag = "Null"    -> Ok(Null)
    [] OTHER               -> NonNumericMathOperation(I16(l), "Modulo", rhs)

(***************************************************************************)
(* sqlparser::ast::Value, imported as Literal: a value of the SQL text     *)
(* whose type is not known yet.  A number is kept as its text.             *)
(***************************************************************************)
Number(text, long) == [literal |-> "Number", text |-> text, long |-> long]
SingleQuotedString(text) == [literal |-> "SingleQuotedString", text |-> text]
Boolean(b) == [literal |-> "Boolean", b |-> b]
LiteralNull == [literal |-> "Null"]

\* the pattern Literal::Number(_, false)
IsNumber(l) == l.literal = "Number" /\ ~l.long

\* the quoted text with every quote in it written twice
RECURSIVE EscapeQuotes(_)
EscapeQuotes(t) ==
  IF Len(t) = 0 THEN << >>
  ELSE (IF t[1] = "'" THEN <<"'", "'">> ELSE <<t[1]>>) \o EscapeQuotes(Tail(t))

\* Literal::to_string, the SQL text of the literal
LiteralToString(l) ==
  CASE l.literal = "Number" -> l.text \o (IF l.long THEN <<"L">> ELSE << >>)
    [] l.literal = "SingleQuotedString" -> <<"'">> \o EscapeQuotes(l.text) \o <<"'">>
    [] l.literal = "Boolean" ->
         IF l.b THEN <<"t", "r", "u", "e">> ELSE <<"f", "a", "l", "s", "e">>
    [] l.literal = "Null" -> <<"N", "U", "L", "L">>

\* the characters of the sampled texts in the order of their code points
CodePoints ==
  <<"'", "+", "-", ".", "0", "1", "2", "3", "4", "5", "6", "7", "8", "9",
    "L", "N", "a", "b", "c", "e", "f", "i", "n", "x">>

CodeOf(c) == CHOOSE i \in 1..Len(CodePoints) : CodePoints[i] = c

\* String::cmp: by the first differing character, else by length
StrCmpAt(l, r, df) ==
  IF df = {} THEN (IF Len(l) < Len(r) THEN -1 ELSE IF Len(l) > Len(r) THEN 1 ELSE 0)
  ELSE IF CodeOf(l[SetMin(df)]) < CodeOf(r[SetMin(df)]) THEN -1 ELSE 1

StrCmp(l, r) == StrCmpAt(l, r, {i \in 1..Min2(Len(l), Len(r)) : l[i] # r[i]})

(***************************************************************************)
(* EvaluateError, ValueError                                               *)
(***************************************************************************)
UnreachableLiteralArithmetic ==
  [tag |-> "Err", kind |-> "UnreachableLiteralArithmetic"]

\* the same error with the two texts exchanged
UnsupportedSwapped(l, r) ==
  [tag |-> "Err", kind |-> "UnsupportedLiteralBinaryArithmetic", lhs |-> r, rhs |-> l]

UnsupportedLiteralBinaryArithmetic(l, r) ==
  [tag |-> "Err", kind |-> "UnsupportedLiteralBinaryArithmetic", lhs |-> l, rhs |-> r]

LiteralUnaryOperationOnNonNumeric ==
  [tag |-> "Err", kind |-> "LiteralUnaryOperationOnNonNumeric"]

ValueError(kind) == [tag |-> "Err", kind |-> kind]

(***************************************************************************)
(* The scalar operations that Evaluated calls on data::Value.              *)
(***************************************************************************)
\* the i16 of the variant I16 as a TLC integer
I16Of(x) == (IF x.neg THEN -1 ELSE 1) * (Limb(x.mag, 1) + Limb(x.mag, 2) * Base)

\* the number of the text: an i64 if it parses as one, else an f64
NumberFromText(i, f) ==
  IF i.some THEN Ok(I64(i.v))
  ELSE IF f.some THEN Ok(F64(f.v))
  ELSE ValueError("FailedToParseNumber")

\* Value::try_from(&Literal): the value of a literal by the type inferred
\* from the literal itself
ValueTryFrom(l) ==
  CASE IsNumber(l) -> NumberFromText(parse_i64(l.text), parse_f64(l.text))
    [] l.literal = "Boolean" -> Ok(Bool(l.b))
    [] l.literal = "SingleQuotedString" -> Ok(Str(l.text))
    [] l.literal = "Null" -> Ok(Null)
    [] OTHER -> ValueError("SqlTypeNotSupported")

\* the result of a scalar operation that is computed outside this unit
Applied(name, l, r) == [tag |-> "Applied", name |-> name, lhs |-> l, rhs |-> r]

\* Value::add, subtract, multiply, divide: an I16 on the left goes to the
\* operator of i16
ValueBinaryOp(name, l, r) ==
  IF l.tag # "I16" THEN Ok(Applied(name, l, r))
  ELSE CASE name = "add"      -> try_add(I16Of(l.v), r)
         [] name = "subtract" -> try_subtract(I16Of(l.v), r)
         [] name = "multiply" -> try_multiply(I16Of(l.v), r)
         [] name = "divide"   -> try_divide(I16Of(l.v), r)

\* Value::unary_plus, unary_minus: Null stays Null, a number keeps or changes
\* its sign, anything else is no number
ValueUnaryOp(name, v) ==
  IF v.tag = "Null" THEN Ok(Null)
  ELSE IF v.tag \in IntTags \cup {"F64", "Decimal"} THEN Ok(Applied(name, v, v))
  ELSE ValueError("UnaryOperationOnNonNumeric")

\* Value == Value: an I16 on the left goes to eq of i16, two integers are
\* equal as numbers
ValueEq(l, r) ==
  IF l.tag = "I16" THEN eq(I16Of(l.v), r)
  ELSE IF l.tag \in IntTags /\ r.tag \in IntTags THEN l.v = r.v
  ELSE l = r

\* Value::partial_cmp(&Value): an I16 on the left goes to partial_cmp of i16
ValuePartialCmp(l, r) ==
  IF l.tag = "I16" THEN partial_cmp(I16Of(l.v), r)
  ELSE IF l.tag \in IntTags /\ r.tag \in IntTags THEN Ordering(BigCmp(l.v, r.v))
  ELSE IF l = r /\ l.tag # "Null" THEN "Equal"
  ELSE "None"

\* v == m for the value m of a literal, false when the literal has no value
ValueEqOk(v, m) == m.tag = "Ok" /\ ValueEq(v, m.value)

\* Value == Literal: the literal is made a value first
ValueEqLiteral(v, l) == ValueEqOk(v, ValueTryFrom(l))

\* v.partial_cmp(m) for the value m of a literal
ValuePartialCmpOk(v, m) == IF m.tag = "Ok" THEN ValuePartialCmp(v, m.value) ELSE "None"

\* Value::partial_cmp(&Literal): the literal is made a value first
ValuePartialCmpLiteral(v, l) == ValuePartialCmpOk(v, ValueTryFrom(l))

\* Value::is_some
ValueIsSome(v) == v.tag # "Null"

DataTypes == {"Int", "Float", "Text", "Boolean"}

\* the value of the text t in the type data_type
CastText(data_type, t, i, f) ==
  CASE data_type = "Int" /\ i.some   -> Ok(I64(i.v))
    [] data_type = "Float" /\ f.some -> Ok(F64(f.v))
    [] data_type = "Text"            -> Ok(Str(t))
    [] OTHER -> ValueError("LiteralCastFailed")

\* Value::try_from_literal(data_type, literal): the literal read as a value
\* of the type data_type
ValueTryFromLiteral(data_type, l) ==
  CASE l.literal = "Null" -> Ok(Null)
    [] l.literal = "Boolean" /\ data_type = "Boolean" -> Ok(Bool(l.b))
    [] l.literal \in {"Number", "SingleQuotedString"} /\ ~(l.literal = "Number" /\ l.long) ->
         CastText(data_type, l.text, parse_i64(l.text), parse_f64(l.text))
    [] OTHER -> ValueError("UnimplementedLiteralCast")

\* Value::cast(data_type)
ValueCast(v, data_type) ==
  CASE v.tag = "Null" -> Ok(Null)
    [] v.tag \in IntTags /\ data_type = "Int"   -> Ok(I64(v.v))
    [] v.tag \in IntTags /\ data_type = "Float" -> Ok(F64(F64FromInt(v.v)))
    [] v.tag = "F64" /\ data_type = "Float"     -> Ok(v)
    [] v.tag = "Bool" /\ data_type = "Boolean"  -> Ok(v)
    [] v.tag = "Str" /\ data_type = "Text"      -> Ok(v)
    [] OTHER -> ValueError("ImpossibleCast")

(***************************************************************************)
(* enum Evaluated: a literal or a value, borrowed (LiteralRef, ValueRef)   *)
(* or owned (Literal, Value).                                              *)
(***************************************************************************)
LiteralRef(l) == [shape |-> "LiteralRef", literal |-> l]
Literal(l) == [shape |-> "Literal", literal |-> l]
ValueRef(v) == [shape |-> "ValueRef", value |-> v]
Value(v) == [shape |-> "Value", value |-> v]

\* the two operands of a match arm, each a literal (a lit record) or a value
\* (a val record), in the order in which the arm passes them on
OfLiterals(l, r) == [arm |-> "literals", l |-> l, r |-> r]
OfValues(l, r) == [arm |-> "values", l |-> l, r |-> r]
OfValueLiteral(v, l) == [arm |-> "value, literal", l |-> v, r |-> l]
OfLiteralValue(l, v) == [arm |-> "literal, value", l |-> l, r |-> v]

\* the arm of `match (self, other)` in impl PartialEq for Evaluated: which
\* comparison it calls and on what
EqArm(self, other) ==
  CASE self.shape = "LiteralRef" /\ other.shape = "LiteralRef" -> OfLiterals(self.literal, other.literal)
    [] self.shape = "LiteralRef" /\ other.shape = "ValueRef"   -> OfValueLiteral(other.value, self.literal)
    [] self.shape = "LiteralRef" /\ other.shape = "Value"      -> OfValueLiteral(other.value, self.literal)
    [] self.shape = "LiteralRef" /\ other.shape = "Literal"    -> OfLiterals(self.literal, other.literal)
    [] self.shape = "ValueRef" /\ other.shape = "LiteralRef"   -> OfValueLiteral(self.value, other.literal)
    [] self.shape = "ValueRef" /\ other.shape = "Literal"      -> OfValueLiteral(self.value, other.literal)
    [] self.shape = "ValueRef" /\ other.shape = "ValueRef"     -> OfValues(self.value, other.value)
    [] self.shape = "ValueRef" /\ other.shape = "Value"        -> OfValues(self.value, other.value)
    [] self.shape = "Value" /\ other.shape = "LiteralRef"      -> OfValueLiteral(self.value, other.literal)
    [] self.shape = "Value" /\ other.shape = "ValueRef"        -> OfValues(self.value, other.value)
    [] self.shape = "Value" /\ other.shape = "Value"           -> OfValues(self.value, other.value)
    [] self.shape = "Value" /\ other.shape = "Literal"         -> OfValueLiteral(self.value, other.literal)
    [] self.shape = "Literal" /\ other.shape = "Literal"       -> OfLiterals(self.literal, other.literal)
    [] self.shape = "Literal" /\ other.shape = "LiteralRef"    -> OfLiterals(self.literal, other.literal)
    [] self.shape = "Literal" /\ other.shape = "ValueRef"      -> OfValueLiteral(other.value, self.literal)
    [] self.shape = "Literal" /\ other.shape = "Value"         -> OfValueLiteral(other.value, self.literal)

\* the comparison of the arm a: Literal == Literal is the derived equality,
\* of variant and fields
EqOf(a) ==
  CASE a.arm = "literals"       -> a.l = a.r
    [] a.arm = "value, literal" -> ValueEqLiteral(a.l, a.r)
    [] a.arm = "values"         -> ValueEq(a.l, a.r)

\* impl PartialEq for Evaluated
Evaluated_eq(self, other) == EqOf(EqArm(self, other))

\* Ordering::reverse under Option::map
Reverse(o) ==
  CASE o = "Less" -> "Greater" [] o = "Greater" -> "Less" [] OTHER -> o

\* the order of two doubles read from number texts, None when one is not read
F64PartialCmpOk(l, r) ==
  IF l.some /\ r.some THEN F64PartialCmp(l.v, r.v) ELSE "None"

\* the order of the number texts l and r, which parse as the i64 li and ri
\* or not: as integers when both do, else as doubles
NumberPartialCmp(l, r, li, ri) ==
  IF li.some /\ ri.some THEN Ordering(BigCmp(li.v, ri.v))
  ELSE F64PartialCmpOk(IF li.some THEN Some(F64FromInt(li.v)) ELSE parse_f64(l),
                       IF ri.some THEN Some(F64FromInt(ri.v)) ELSE parse_f64(r))

literal_partial_cmp(l, r) ==
  CASE IsNumber(l) /\ IsNumber(r) ->
         NumberPartialCmp(l.text, r.text, parse_i64(l.text), parse_i64(r.text))
    [] l.literal = "SingleQuotedString" /\ r.literal = "SingleQuotedString" ->
         Ordering(StrCmp(l.text, r.text))
    [] OTHER -> "None"

\* the arm of `match (self, other)` in impl PartialOrd for Evaluated; a
\* literal on the left of a value is compared from the value's side
PartialCmpArm(self, other) ==
  CASE self.shape = "LiteralRef" /\ other.shape = "LiteralRef" -> OfLiterals(self.literal, other.literal)
    [] self.shape = "LiteralRef" /\ other.shape = "Literal"    -> OfLiterals(self.literal, other.literal)
    [] self.shape = "LiteralRef" /\ other.shape = "ValueRef"   -> OfLiteralValue(self.literal, other.value)
    [] self.shape = "LiteralRef" /\ other.shape = "Value"      -> OfLiteralValue(self.literal, other.value)
    [] self.shape = "Literal" /\ other.shape = "LiteralRef"    -> OfLiterals(self.literal, other.literal)
    [] self.shape = "Literal" /\ other.shape = "ValueRef"      -> OfLiteralValue(self.literal, other.value)
    [] self.shape = "Literal" /\ other.shape = "Value"         -> OfLiteralValue(self.literal, other.value)
    [] self.shape = "Literal" /\ other.shape = "Literal"       -> OfLiterals(self.literal, other.literal)
    [] self.shape = "ValueRef" /\ other.shape = "LiteralRef"   -> OfValueLiteral(self.value, other.literal)
    [] self.shape = "ValueRef" /\ other.shape = "ValueRef"     -> OfValues(self.value, other.value)
    [] self.shape = "Value" /\ other.shape = "Literal"         -> OfValueLiteral(self.value, other.literal)
    [] self.shape = "Value" /\ other.shape = "Value"           -> OfValues(self.value, other.value)
    [] self.shape = "ValueRef" /\ other.shape = "Literal"      -> OfValueLiteral(self.value, other.literal)
    [] self.shape = "ValueRef" /\ other.shape = "Value"        -> OfValues(self.value, other.value)
    [] self.shape = "Value" /\ other.shape = "LiteralRef"      -> OfValueLiteral(self.value, other.literal)
    [] self.shape = "Value" /\ other.shape = "ValueRef"        -> OfValues(self.value, other.value)

\* the comparison of the arm a without the reversal
PartialCmpOf_no_reverse(a) ==
  CASE a.arm = "literals"       -> literal_partial_cmp(a.l, a.r)
    [] a.arm = "literal, value" -> ValuePartialCmpLiteral(a.r, a.l)
    [] a.arm = "value, literal" -> ValuePartialCmpLiteral(a.l, a.r)
    [] a.arm = "values"         -> ValuePartialCmp(a.l, a.r)

PartialCmpOf(a) ==
  CASE a.arm = "literals"       -> literal_partial_cmp(a.l, a.r)
    [] a.arm = "literal, value" -> Reverse(ValuePartialCmpLiteral(a.r, a.l))
    [] a.arm = "value, literal" -> ValuePartialCmpLiteral(a.l, a.r)
    [] a.arm = "values"         -> ValuePartialCmp(a.l, a.r)

\* impl PartialOrd for Evaluated: "Less", "Equal", "Greater" or "None"
Evaluated_partial_cmp(self, other) == PartialCmpOf(PartialCmpArm(self, other))

\* impl TryInto<Value> for Evaluated
try_into(self) ==
  CASE self.shape = "LiteralRef" -> ValueTryFrom(self.literal)
    [] self.shape = "Literal"    -> ValueTryFrom(self.literal)
    [] self.shape = "ValueRef"   -> Ok(self.value)
    [] self.shape = "Value"      -> Ok(self.value)

(***************************************************************************)
(* binary_op!: add, subtract, multiply, divide                             *)
(***************************************************************************)
BinaryOps == {"add", "subtract", "multiply", "divide"}

\* the builds: with and without overflow checks on integer arithmetic
Builds == {"debug", "release"}

\* the panic message of an overflowing `l $op r`
OverflowMessage(name) ==
  CASE name = "add"      -> "attempt to add with overflow"
    [] name = "subtract" -> "attempt to subtract with overflow"
    [] name = "multiply" -> "attempt to multiply with overflow"

\* the i64 of the exact result e of an operator that may overflow: a build
\* with overflow checks panics, one without wraps
I64Wrap(name, e, build) ==
  IF InRange(e, 64) THEN Ok(e)
  ELSE IF build = "debug" THEN Panic(OverflowMessage(name))
  ELSE Ok(AsInt(e, 64))

\* `l $op r` on two i64
I64Op(name, l, r, build) ==
  CASE name = "add"      -> I64Wrap(name, BigAdd(l, r), build)
    [] name = "subtract" -> I64Wrap(name, BigSub(l, r), build)
    [] name = "multiply" -> I64Wrap(name, BigMul(l, r), build)
    [] name = "divide"   ->
         IF r.mag = << >> THEN Panic("attempt to divide by zero")
         ELSE IF l = MinOf(64) /\ r = [neg |-> TRUE, mag |-> <<1>>]
              THEN Panic("attempt to divide with overflow")
         ELSE Ok(BigDiv(l, r))

\* `l $op r` on two f64
F64Op(name, l, r) ==
  CASE name = "add"      -> F64Add(l, r)
    [] name = "subtract" -> F64Sub(l, r)
    [] name = "multiply" -> F64Mul(l, r)
    [] name = "divide"   -> F64Div(l, r)

\* the literal of the i64 v with the long flag set
I64Literal_long(v) ==
  IF v.tag = "Panic" THEN v ELSE Ok(Literal(Number(I64ToString(v.value), TRUE)))

\* Ok(Literal::Number(v.to_string(), false)).map(Evaluated::Literal) for the
\* i64 v, unless computing v panicked
I64Literal(v) ==
  IF v.tag = "Panic" THEN v ELSE Ok(Literal(Number(I64ToString(v.value), FALSE)))

\* the same for the f64 v
F64Literal(v) == Ok(Literal(Number(F64ToString(v), FALSE)))

\* the operator on two doubles read from number texts
F64BinaryOp(name, l, r) ==
  IF l.some /\ r.some THEN F64Literal(F64Op(name, l.v, r.v))
  ELSE UnreachableLiteralArithmetic

\* the operator on the number texts l and r, which parse as the i64 li and ri
\* or not: on integers when both do, else on doubles
NumberBinaryOp(name, l, r, li, ri, build) ==
  IF li.some /\ ri.some THEN I64Literal(I64Op(name, li.v, ri.v, build))
  ELSE F64BinaryOp(name,
                   IF li.some THEN Some(F64FromInt(li.v)) ELSE parse_f64(l),
                   IF ri.some THEN Some(F64FromInt(ri.v)) ELSE parse_f64(r))

literal_binary_op(name, l, r, build) ==
  CASE IsNumber(l) /\ IsNumber(r) ->
         NumberBinaryOp(name, l.text, r.text, parse_i64(l.text), parse_i64(r.text), build)
    [] \/ (l.literal = "Null" /\ IsNumber(r))
       \/ (IsNumber(l) /\ r.literal = "Null")
       \/ (l.literal = "Null" /\ r.literal = "Null") ->
         Ok(Literal(LiteralNull))
    [] OTHER ->
         UnsupportedLiteralBinaryArithmetic(LiteralToString(l), LiteralToString(r))

\* a result that borrows the value
MapValueRef(res) == IF res.tag = "Ok" THEN Ok(ValueRef(res.value)) ELSE res

\* Result::map(Evaluated::Value)
MapValue(res) == IF res.tag = "Ok" THEN Ok(Value(res.value)) ELSE res

\* value_binary_op with the operands exchanged
ValueBinaryOpOk_swapped(name, l, r) ==
  IF l.tag # "Ok" THEN l
  ELSE IF r.tag # "Ok" THEN r
  ELSE MapValue(ValueBinaryOp(name, r.value, l.value))

\* value_binary_op on the values l and r of the operands; the `?` returns
\* the error of a literal that has no value
ValueBinaryOpOk(name, l, r) ==
  IF l.tag # "Ok" THEN l
  ELSE IF r.tag # "Ok" THEN r
  ELSE MapValue(ValueBinaryOp(name, l.value, r.value))

\* the arm of `match (self, other)` in binary_op!
BinaryArm(self, other) ==
  CASE self.shape = "LiteralRef" /\ other.shape = "LiteralRef" -> OfLiterals(self.literal, other.literal)
    [] self.shape = "LiteralRef" /\ other.shape = "Literal"    -> OfLiterals(self.literal, other.literal)
    [] self.shape = "LiteralRef" /\ other.shape = "ValueRef"   -> OfLiteralValue(self.literal, other.value)
    [] self.shape = "LiteralRef" /\ other.shape = "Value"      -> OfLiteralValue(self.literal, other.value)
    [] self.shape = "Literal" /\ other.shape = "LiteralRef"    -> OfLiterals(self.literal, other.literal)
    [] self.shape = "Literal" /\ other.shape = "Literal"       -> OfLiterals(self.literal, other.literal)
    [] self.shape = "Literal" /\ other.shape = "ValueRef"      -> OfLiteralValue(self.literal, other.value)
    [] self.shape = "Literal" /\ other.shape = "Value"         -> OfLiteralValue(self.literal, other.value)
    [] self.shape = "ValueRef" /\ other.shape = "LiteralRef"   -> OfValueLiteral(self.value, other.literal)
    [] self.shape = "ValueRef" /\ other.shape = "Literal"      -> OfValueLiteral(self.value, other.literal)
    [] self.shape = "ValueRef" /\ other.shape = "ValueRef"     -> OfValues(self.value, other.value)
    [] self.shape = "ValueRef" /\ other.shape = "Value"        -> OfValues(self.value, other.value)
    [] self.shape = "Value" /\ other.shape = "LiteralRef"      -> OfValueLiteral(self.value, other.literal)
    [] self.shape = "Value" /\ other.shape = "Literal"         -> OfValueLiteral(self.value, other.literal)
    [] self.shape = "Value" /\ other.shape = "ValueRef"        -> OfValues(self.value, other.value)
    [] self.shape = "Value" /\ other.shape = "Value"           -> OfValues(self.value, other.value)

\* the value of the left and of the right operand of the arm a
LeftValue(a) ==
  IF a.arm = "literal, value" THEN ValueTryFrom(a.l) ELSE Ok(a.l)
RightValue(a) ==
  IF a.arm = "value, literal" THEN ValueTryFrom(a.r) ELSE Ok(a.r)

BinaryOf(name, a, build) ==
  IF a.arm = "literals" THEN literal_binary_op(name, a.l, a.r, build)
  ELSE ValueBinaryOpOk(name, LeftValue(a), RightValue(a))

\* binary_op!($name, $op): Evaluated::add, subtract, multiply, divide
binary_op(name, self, other, build) == BinaryOf(name, BinaryArm(self, other), build)

(***************************************************************************)
(* unary_op!: unary_plus, unary_minus                                       *)
(***************************************************************************)
UnaryOps == {"unary_plus", "unary_minus"}

\* `0 $op v` on an i64
I64UnaryOp(name, v, build) ==
  IF name = "unary_plus" THEN Ok(v) ELSE I64Wrap("subtract", BigNeg(v), build)

\* `0.0 $op v` on an f64
F64UnaryOp(name, v) ==
  IF name = "unary_plus" THEN F64Add(F64Zero(FALSE), v) ELSE F64Sub(F64Zero(FALSE), v)

\* Literal::Number(v.to_string(), false) for the i64 v, unless computing v
\* panicked
I64UnaryLiteral(v) ==
  IF v.tag = "Panic" THEN v ELSE Ok(Number(I64ToString(v.value), FALSE))

\* the operator on the number text that parses as the i64 i, else as the
\* f64 f, else not at all
NumberUnaryOp(name, i, f, build) ==
  IF i.some THEN I64UnaryLiteral(I64UnaryOp(name, i.v, build))
  ELSE IF f.some THEN Ok(Number(F64ToString(F64UnaryOp(name, f.v)), FALSE))
  ELSE LiteralUnaryOperationOnNonNumeric

literal_unary_op(name, v, build) ==
  CASE IsNumber(v) -> NumberUnaryOp(name, parse_i64(v.text), parse_f64(v.text), build)
    [] v.literal = "Null" -> Ok(LiteralNull)
    [] OTHER -> LiteralUnaryOperationOnNonNumeric

\* Result::map(Evaluated::Literal)
MapLiteral(res) == IF res.tag = "Ok" THEN Ok(Literal(res.value)) ELSE res

\* unary_op!($name, $op): Evaluated::unary_plus, unary_minus
unary_op(name, self, build) ==
  CASE self.shape = "LiteralRef" -> MapLiteral(literal_unary_op(name, self.literal, build))
    [] self.shape = "Literal"    -> MapLiteral(literal_unary_op(name, self.literal, build))
    [] self.shape = "ValueRef"   -> MapValue(ValueUnaryOp(name, self.value))
    [] self.shape = "Value"      -> MapValue(ValueUnaryOp(name, self.value))

\* Evaluated::cast
cast(self, data_type) ==
  MapValue(CASE self.shape = "LiteralRef" -> ValueTryFromLiteral(data_type, self.literal)
             [] self.shape = "Literal"    -> ValueTryFromLiteral(data_type, self.literal)
             [] self.shape = "ValueRef"   -> ValueCast(self.value, data_type)
             [] self.shape = "Value"      -> ValueCast(self.value, data_type))

\* is_some that takes the number 0 and the boolean false for absent
is_some_falsy(self) ==
  CASE self.shape \in {"ValueRef", "Value"} -> ValueIsSome(self.value)
    [] OTHER -> self.literal \notin {LiteralNull, Number(<<"0">>, FALSE), Boolean(FALSE)}

\* Evaluated::is_some
is_some(self) ==
  CASE self.shape = "ValueRef"   -> ValueIsSome(self.value)
    [] self.shape = "Value"      -> ValueIsSome(self.value)
    [] self.shape = "Literal"    -> self.literal # LiteralNull
    [] self.shape = "LiteralRef" -> self.literal # LiteralNull

(***************************************************************************)
(* Operands                                                                *)
(***************************************************************************)
\* how far the sampled integers reach from each anchor value
Edge == 1
\* how far the sampled integers reach from zero
Small == 2

Near(x, d) == {BigAdd(x, Big(k)) : k \in (0 - d)..d}

\* the integers of w bits near zero, near the limits of w bits, near the
\* limits of i16 and near 2^16 (which an `as i16` would take back to zero)
IntSamples(w) ==
  {x \in Near(BigZero, Small)
         \cup Near(MinOf(w), Edge) \cup Near(MaxOf(w), Edge)
         \cup Near(MinOf(16), Edge) \cup Near(MaxOf(16), Edge)
         \cup Near(MkBig(FALSE, MagShl(<<1>>, 16)), Edge) : InRange(x, w)}

LhsSamples ==
  ((0 - Small)..Small) \cup (-32768..(-32768 + Edge)) \cup ((32767 - Edge)..32767)

\* 1 - 2^-53 and 1 + 2^-52, the doubles next to 1.0
F64BelowOne == F64Fin(FALSE, MagSub(MagShl(<<1>>, 53), <<1>>), 0 - 53)
F64AboveOne == F64Fin(FALSE, MagAdd(MagShl(<<1>>, 52), <<1>>), 0 - 52)
\* f64::MAX
F64Max == F64Fin(FALSE, MagSub(MagShl(<<1>>, 53), <<1>>), 971)

F64Samples ==
  {F64NaN, F64Inf(FALSE), F64Inf(TRUE), F64Zero(FALSE), F64Zero(TRUE),
   F64BelowOne, F64AboveOne, F64Max, F64Negate(F64Max)}
  \cup {F64FromInt(Big(n)) : n \in {-32768, -2, -1, 1, 2, 3, 32767}}
  \* 0.5, 1.5, -1.5, 2^-60, -2^-60, 32767.5, 2^70
  \cup {F64Fin(FALSE, <<1>>, 0 - 1), F64Fin(FALSE, <<3>>, 0 - 1), F64Fin(TRUE, <<3>>, 0 - 1),
        F64Fin(FALSE, <<1>>, 0 - 60), F64Fin(TRUE, <<1>>, 0 - 60),
        F64Fin(FALSE, MagOfNat(65535), 0 - 1), F64Fin(FALSE, <<1>>, 70)}

\* Decimal::MAX = 2^96 - 1
DecMaxMag == MagSub(MagShl(<<1>>, DecMantBits), <<1>>)

DecimalSamples ==
  {DecFromInt(Big(n)) : n \in {-32768, -1, 0, 1, 2, 3, 32767}}
  \* 0.0, 1.0, 1.5, -0.5, 0.25
  \cup {Dec(FALSE, << >>, 1), Dec(FALSE, <<10>>, 1), Dec(FALSE, <<15>>, 1),
        Dec(TRUE, <<5>>, 1), Dec(FALSE, <<25>>, 2)}
  \cup {Dec(neg, MagSub(DecMaxMag, MagOfNat(k)), 0) : neg \in BOOLEAN, k \in 0..Edge}

NonNumericSamples ==
  {Bool(TRUE), Bool(FALSE), Str("abc"), Str("1"),
   Interval("Month", Big(2)), Interval("Microsecond", Big(-5))}

RhsSamples ==
  UNION {{IntVal(t, v) : v \in IntSamples(Width(t))} : t \in IntTags}
  \cup {F64(f) : f \in F64Samples}
  \cup {Decimal(d) : d \in DecimalSamples}
  \cup NonNumericSamples
  \cup {Null}

(***************************************************************************)
(* The state: an operand pair, the operator last called on it, what the    *)
(* call returned, and steps, the number of results that went on to be an   *)
(* operand of a next call.                                                 *)
(***************************************************************************)
VARIABLES lhs, rhs, op, ret, steps

vars == <<lhs, rhs, op, ret, steps>>

NoCall == [tag |-> "NoCall"]

Init ==
  /\ lhs \in LhsSamples
  /\ rhs \in RhsSamples
  /\ op = "none"
  /\ ret = NoCall
  /\ steps = 0

CallEq ==
  /\ op' = "eq"
  /\ ret' = eq(lhs, rhs)
  /\ UNCHANGED <<lhs, rhs, steps>>

CallPartialCmp ==
  /\ op' = "partial_cmp"
  /\ ret' = partial_cmp(lhs, rhs)
  /\ UNCHANGED <<lhs, rhs, steps>>

CallTryAdd ==
  /\ op' = "try_add"
  /\ ret' = try_add(lhs, rhs)
  /\ UNCHANGED <<lhs, rhs, steps>>

CallTrySubtract ==
  /\ op' = "try_subtract"
  /\ ret' = try_subtract(lhs, rhs)
  /\ UNCHANGED <<lhs, rhs, steps>>

CallTryMultiply ==
  /\ op' = "try_multiply"
  /\ ret' = try_multiply(lhs, rhs)
  /\ UNCHANGED <<lhs, rhs, steps>>

CallTryDivide ==
  /\ op' = "try_divide"
  /\ ret' = try_divide(lhs, rhs)
  /\ UNCHANGED <<lhs, rhs, steps>>

CallTryModulo ==
  /\ op' = "try_modulo"
  /\ ret' = try_modulo(lhs, rhs)
  /\ UNCHANGED <<lhs, rhs, steps>>

Next ==
  \/ CallEq
  \/ CallPartialCmp
  \/ CallTryAdd
  \/ CallTrySubtract
  \/ CallTryMultiply
  \/ CallTryDivide
  \/ CallTryModulo

Spec == Init /\ [][Next]_vars

(***************************************************************************)
(* Operands of Evaluated                                                   *)
(***************************************************************************)
\* the texts of the integers near zero and near the limits of i64, the
\* nearest ones beyond the limits included
IntegerTexts ==
  {I64ToString(x) : x \in Near(BigZero, Small)
                          \cup Near(MinOf(64), Edge) \cup Near(MaxOf(64), Edge)}

\* 01, 1.0, 1.5, 3.0, 0.1, 0.2, inf, NaN and abc
OtherTexts ==
  {<<"0", "1">>, <<"1", ".", "0">>, <<"1", ".", "5">>, <<"3", ".", "0">>,
   <<"0", ".", "1">>, <<"0", ".", "2">>, <<"i", "n", "f">>, <<"N", "a", "N">>,
   <<"a", "b", "c">>}

LiteralSamples ==
  {Number(t, FALSE) : t \in IntegerTexts \cup OtherTexts}
  \cup {Number(<<"1">>, TRUE),
        SingleQuotedString(<<"a">>), SingleQuotedString(<<"1">>),
        Boolean(TRUE), Boolean(FALSE), LiteralNull}

\* literals that the evaluator owns: results of literal arithmetic and a few
\* of every other kind
OwnedLiteralSamples ==
  {Number(<<"1">>, FALSE), Number(<<"1", ".", "0">>, FALSE),
   Number(<<"2", ".", "5">>, FALSE), Number(I64ToString(MinOf(64)), FALSE),
   Number(<<"a", "b", "c">>, FALSE), Number(<<"1">>, TRUE),
   SingleQuotedString(<<"a">>), Boolean(FALSE), LiteralNull}

ValueSamples ==
  {I16(Big(1)), I16(MaxOf(16)), I64(Big(1)), F64(F64Fin(FALSE, <<3>>, 0 - 1)),
   Decimal(Dec(FALSE, DecMaxMag, 0)), Str(<<"a">>), Bool(TRUE), Null}

\* values that the evaluator owns
OwnedValueSamples ==
  {I16(Big(1)), I64(Big(1)), Decimal(Dec(FALSE, DecMaxMag, 0)), Str(<<"a">>), Null}

EvaluatedSamples ==
  {LiteralRef(l) : l \in LiteralSamples} \cup {Literal(l) : l \in OwnedLiteralSamples}
  \cup {ValueRef(v) : v \in ValueSamples} \cup {Value(v) : v \in OwnedValueSamples}

(***************************************************************************)
(* The state of a call on Evaluated: lhs and rhs are self and other, op    *)
(* the method last called and ret what it returned.  A method of self      *)
(* alone is called with NoOperand for rhs.  Each call is made once.        *)
(***************************************************************************)
NoOperand == [shape |-> "NoOperand"]

EvaluatedInit ==
  /\ lhs \in EvaluatedSamples
  /\ rhs \in EvaluatedSamples \cup {NoOperand}
  /\ op = "none"
  /\ ret = NoCall
  /\ steps = 0

\* what the call returns in the build build, given what it returns in the
\* debug build: the builds differ only where the debug build panics
InBuild(build, debug, other) == IF build = "debug" \/ debug.tag # "Panic" THEN debug ELSE other

CallEvaluatedEq ==
  /\ op = "none"
  /\ rhs # NoOperand
  /\ op' = "Evaluated::eq"
  /\ ret' = Evaluated_eq(lhs, rhs)
  /\ UNCHANGED <<lhs, rhs, steps>>

CallEvaluatedPartialCmp ==
  /\ op = "none"
  /\ rhs # NoOperand
  /\ op' = "Evaluated::partial_cmp"
  /\ ret' = Evaluated_partial_cmp(lhs, rhs)
  /\ UNCHANGED <<lhs, rhs, steps>>

CallTryInto ==
  /\ op = "none"
  /\ rhs = NoOperand
  /\ op' = "try_into"
  /\ ret' = try_into(lhs)
  /\ UNCHANGED <<lhs, rhs, steps>>

\* add, subtract, multiply, divide, in either build
CallBinaryOp ==
  /\ op = "none"
  /\ rhs # NoOperand
  /\ \E name \in BinaryOps :
       LET debug == binary_op(name, lhs, rhs, "debug")
       IN  \E build \in Builds :
             /\ op' = name
             /\ ret' = InBuild(build, debug, binary_op(name, lhs, rhs, build))
  /\ UNCHANGED <<lhs, rhs, steps>>

\* unary_plus, unary_minus, in either build
CallUnaryOp ==
  /\ op = "none"
  /\ rhs = NoOperand
  /\ \E name \in UnaryOps :
       LET debug == unary_op(name, lhs, "debug")
       IN  \E build \in Builds :
             /\ op' = name
             /\ ret' = InBuild(build, debug, unary_op(name, lhs, build))
  /\ UNCHANGED <<lhs, rhs, steps>>

CallCast ==
  /\ op = "none"
  /\ rhs = NoOperand
  /\ \E data_type \in DataTypes :
       /\ op' = "cast"
       /\ ret' = cast(lhs, data_type)
  /\ UNCHANGED <<lhs, rhs, steps>>

CallIsSome ==
  /\ op = "none"
  /\ rhs = NoOperand
  /\ op' = "is_some"
  /\ ret' = is_some(lhs)
  /\ UNCHANGED <<lhs, rhs, steps>>

EvaluatedNext ==
  \/ CallEvaluatedEq
  \/ CallEvaluatedPartialCmp
  \/ CallTryInto
  \/ CallBinaryOp
  \/ CallUnaryOp
  \/ CallCast
  \/ CallIsSome

EvaluatedSpec == EvaluatedInit /\ [][EvaluatedNext]_vars

(***************************************************************************)
(* Chains of literal arithmetic: the evaluator folds an expression of      *)
(* literals bottom-up, the owned literal that a call returns being self or *)
(* other of the next call.                                                 *)
(***************************************************************************)
\* the results passed on in a chain
MaxChain == 1

\* Null and number texts that parse as i64 or as f64: 0, 2 and 1.5
ChainSamples ==
  {LiteralRef(LiteralNull)}
  \cup {LiteralRef(Number(t, FALSE)) : t \in {<<"0">>, <<"2">>, <<"1", ".", "5">>}}

ChainInit ==
  /\ lhs \in ChainSamples
  /\ rhs \in ChainSamples \cup {NoOperand}
  /\ op = "none"
  /\ ret = NoCall
  /\ steps = 0

\* the Ok(Evaluated) of the last call is an operand of the next call, with a
\* literal of the expression on its other side or alone
PassOn ==
  /\ op \in BinaryOps \cup UnaryOps
  /\ ret.tag = "Ok"
  /\ steps < MaxChain
  /\ \E e \in ChainSamples \cup {NoOperand} :
       \/ lhs' = ret.value /\ rhs' = e
       \/ e # NoOperand /\ lhs' = e /\ rhs' = ret.value
  /\ op' = "none"
  /\ ret' = NoCall
  /\ steps' = steps + 1

ChainNext ==
  \/ CallBinaryOp
  \/ CallUnaryOp
  \/ PassOn

ChainSpec == ChainInit /\ [][ChainNext]_vars

(***************************************************************************)
(* Properties.  Each is stated over the last call: op names the operator   *)
(* called on lhs and rhs, ret is what it returned.                         *)
(***************************************************************************)
ArithOps == {"try_add", "try_subtract", "try_multiply", "try_divide", "try_modulo"}

NumericTags == IntTags \cup {"F64", "Decimal"}

\* the NumericBinaryOperator a method reports
OperatorOf(o) ==
  CASE o = "try_add"      -> "Add"
    [] o = "try_subtract" -> "Subtract"
    [] o = "try_multiply" -> "Multiply"
    [] o = "try_divide"   -> "Divide"
    [] o = "try_modulo"   -> "Modulo"

\* the variant of the wider of i16 and the width of variant t
WiderTag(t) == IF Width(t) <= 16 THEN "I16" ELSE t

\* the mathematical result of operator o on the integers x and y (y # 0 for
\* the truncated quotient and its remainder)
Exact(o, x, y) ==
  CASE o = "try_add"      -> BigAdd(x, y)
    [] o = "try_subtract" -> BigSub(x, y)
    [] o = "try_multiply" -> BigMul(x, y)
    [] o = "try_divide"   -> BigDiv(x, y)
    [] o = "try_modulo"   -> BigRem(x, y)

IsOverflow(r) == r.tag = "Err" /\ r.kind = "BinaryOperationOverflow"

\* C1: with an integer rhs, try_add, try_subtract and try_multiply return Ok
\* with the exact mathematical result, in the variant of the wider of the
\* two widths, if and only if that result fits the wider width, and
\* BinaryOperationOverflow otherwise; i16::MAX + I32(1) is Ok(I32(32768))
\* and i16::MAX + I16(1) overflows.
C1_WidenThenCheck ==
  /\ (op \in {"try_add", "try_subtract", "try_multiply"} /\ rhs.tag \in IntTags) =>
        LET t == WiderTag(rhs.tag)
            e == Exact(op, Big(lhs), rhs.v)
        IN  IF InRange(e, Width(t)) THEN ret = Ok(IntVal(t, e))
            ELSE IsOverflow(ret)
  /\ (op = "try_add" /\ lhs = 32767 /\ rhs = I32(Big(1))) => ret = Ok(I32(Big(32768)))
  /\ (op = "try_add" /\ lhs = 32767 /\ rhs = I16(Big(1))) => IsOverflow(ret)

C1_Witness ==
  /\ op = "try_add" /\ lhs = 32767 /\ rhs = I32(Big(1))
  /\ ret = Ok(I32(Big(32768)))

\* C2 (as claimed): with a non-zero integer rhs, try_divide and try_modulo
\* report BinaryOperationOverflow if and only if the truncated quotient,
\* respectively its remainder, does not fit the wider of the two widths, and
\* otherwise return Ok with it in the wider variant; i16::MIN with I8(-1) or
\* I16(-1) included.
C2_DivModOverflowIffNoFit ==
  (op \in {"try_divide", "try_modulo"} /\ rhs.tag \in IntTags /\ rhs.v # BigZero) =>
    LET t == WiderTag(rhs.tag)
        e == Exact(op, Big(lhs), rhs.v)
    IN  IF InRange(e, Width(t)) THEN ret = Ok(IntVal(t, e))
        ELSE IsOverflow(ret)

\* C3: every BinaryOperationOverflow an arithmetic operator returns carries
\* lhs = I16(the original lhs), rhs = the original rhs in its own variant and
\* value, and the operator of the method that was called.
C3_OverflowCarriesOriginals ==
  (op \in ArithOps /\ IsOverflow(ret)) =>
    /\ ret.lhs = I16(Big(lhs))
    /\ ret.rhs = rhs
    /\ ret.operator = OperatorOf(op)

C3_Witness ==
  /\ op = "try_subtract" /\ lhs = -32768 /\ rhs = I8(Big(1))
  /\ ret = BinaryOperationOverflow(I16(Big(-32768)), I8(Big(1)), "Subtract")

\* C4: Null is absorbing: each of the five operators returns Ok(Null) for
\* rhs = Null, whatever lhs is.
C4_NullAbsorbing ==
  (op \in ArithOps /\ rhs = Null) => ret = Ok(Null)

C4_Witness ==
  op = "try_modulo" /\ lhs = 32767 /\ rhs = Null /\ ret = Ok(Null)

IsF64Zero(f) == f.kind = "fin" /\ f.mag = << >>

\* C5: try_divide and try_modulo fail with BinaryOperationOverflow (operator
\* Divide or Modulo, the original operands) for an integer rhs of value zero
\* of any width, fail with BinaryOperationOverflow for a Decimal zero, and
\* succeed with an F64 for rhs = F64(0.0).
C5_ZeroDivisors ==
  op \in {"try_divide", "try_modulo"} =>
    /\ (rhs.tag \in IntTags /\ rhs.v = BigZero) =>
         ret = BinaryOperationOverflow(I16(Big(lhs)), rhs, OperatorOf(op))
    /\ (rhs.tag = "Decimal" /\ rhs.v.mag = << >>) => IsOverflow(ret)
    /\ (rhs.tag = "F64" /\ IsF64Zero(rhs.v)) => (ret.tag = "Ok" /\ ret.value.tag = "F64")

C5_Witness ==
  /\ op = "try_divide" /\ lhs = 32767 /\ rhs = F64(F64Zero(FALSE))
  /\ ret = Ok(F64(F64Inf(FALSE)))

\* C6: for an rhs that is no integer, F64, Decimal or Null, every operator
\* fails with NonNumericMathOperation carrying I16(lhs), its own operator and
\* rhs, except try_multiply with an Interval, which returns Ok with an
\* Interval.
C6_NonNumericRejected ==
  (op \in ArithOps /\ rhs.tag \notin NumericTags \cup {"Null"}) =>
    IF op = "try_multiply" /\ rhs.tag = "Interval"
    THEN ret.tag = "Ok" /\ ret.value.tag = "Interval"
    ELSE ret = NonNumericMathOperation(I16(Big(lhs)), OperatorOf(op), rhs)

C6_Witness ==
  /\ op = "try_multiply" /\ lhs = 2 /\ rhs = Interval("Month", Big(2))
  /\ ret.tag = "Ok" /\ ret.value.tag = "Interval"

\* the checked decimal operation behind operator o
DecChecked(o, x, y) ==
  CASE o = "try_add"      -> DecCheckedAdd(x, y)
    [] o = "try_subtract" -> DecCheckedSub(x, y)
    [] o = "try_multiply" -> DecCheckedMul(x, y)
    [] o = "try_divide"   -> DecCheckedDiv(x, y)
    [] o = "try_modulo"   -> DecCheckedRem(x, y)

\* C7 (as claimed): with a Decimal rhs each of the five operators is the
\* checked decimal operation: BinaryOperationOverflow with I16(lhs),
\* Decimal(rhs) and the operator when it overflows, Ok(Decimal(result))
\* otherwise, and never a panic.
C7_DecimalChecked ==
  (op \in ArithOps /\ rhs.tag = "Decimal") =>
    LET r == DecChecked(op, DecFromInt(Big(lhs)), rhs.v)
    IN  IF r.some THEN ret = Ok(Decimal(r.v))
        ELSE ret = BinaryOperationOverflow(I16(Big(lhs)), rhs, OperatorOf(op))

\* C8: eq with an integer rhs of any width is true exactly when the two
\* mathematical integers are equal, and false for Bool, Null, Str and every
\* other non-numeric rhs.
C8_EqIntegersExact ==
  op = "eq" =>
    /\ rhs.tag \in IntTags => (ret <=> (Big(lhs) = rhs.v))
    /\ rhs.tag \notin NumericTags => ret = FALSE

C8_Witness ==
  op = "eq" /\ lhs = 0 /\ rhs = I32(MkBig(FALSE, MagShl(<<1>>, 16))) /\ ret = FALSE

\* C9 (as claimed): partial_cmp returns Some(Equal) if and only if eq holds,
\* for every lhs and every rhs.
C9_CmpConsistentWithEq ==
  op = "partial_cmp" => ((ret = "Equal") <=> eq(lhs, rhs))

\* the sign of l - f for an integer l and a double f that is no NaN
IntVsF64(l, f) ==
  IF f.kind = "inf" THEN (IF f.neg THEN 1 ELSE -1)
  ELSE IF f.exp >= 0 THEN BigCmp(l, MkBig(f.neg, MagShl(f.mag, f.exp)))
  ELSE BigCmp(MkBig(l.neg, MagShl(l.mag, 0 - f.exp)), MkBig(f.neg, f.mag))

\* the sign of l - d for an integer l and a decimal d
IntVsDec(l, d) ==
  BigCmp(MkBig(l.neg, MagMul(l.mag, MagPow10(d.scale))), MkBig(d.neg, d.mag))

\* the order of the mathematical values of lhs and a numeric rhs, no NaN
MathOrder(l, r) ==
  Ordering(CASE r.tag \in IntTags   -> BigCmp(l, r.v)
             [] r.tag = "F64"       -> IntVsF64(l, r.v)
             [] r.tag = "Decimal"   -> IntVsDec(l, r.v))

\* C10 (as claimed): partial_cmp returns None only for an rhs that is not
\* numeric: for I8, I16, I32, I64, I128, F64 and Decimal it returns Some of
\* the order of the two mathematical values, and None for every other rhs.
C10_Original ==
  op = "partial_cmp" =>
    IF rhs.tag \in NumericTags
    THEN /\ ret # "None"
         /\ (rhs.tag = "F64" /\ rhs.v.kind = "nan") \/ ret = MathOrder(Big(lhs), rhs)
    ELSE ret = "None"

\* C10 (amended): partial_cmp returns Some of the order of the two
\* mathematical values for an rhs that is I8, I16, I32, I64, I128, Decimal or
\* an F64 other than NaN, and None for F64(NaN) and for every rhs that is not
\* numeric.
C10_NoneOnlyForNonNumericOrNaN ==
  op = "partial_cmp" =>
    IF rhs.tag \in NumericTags /\ ~(rhs.tag = "F64" /\ rhs.v.kind = "nan")
    THEN ret = MathOrder(Big(lhs), rhs)
    ELSE ret = "None"

C10_Witness ==
  op = "partial_cmp" /\ lhs = 32767 /\ rhs = I8(Big(-1)) /\ ret = "Greater"

(***************************************************************************)
(* Properties of Evaluated.  Each is stated over the last call: op names   *)
(* the method called on lhs (self) and rhs (other), ret is what it         *)
(* returned.                                                               *)
(***************************************************************************)
IsLiteral(e) == e.shape \in {"LiteralRef", "Literal"}

IsValue(e) == e.shape \in {"ValueRef", "Value"}

\* C11: no operation panics: add, subtract, multiply, divide, unary_plus and
\* unary_minus end with an Ok or an Err for every operand, two integer
\* literals whose i64 result overflows, a literal integer divisor of zero and
\* unary_minus of -9223372036854775808 included.
C11_NoPanic ==
  op \in BinaryOps \cup UnaryOps => ret.tag \in {"Ok", "Err"}

\* both operands of the last call are literals
OnLiterals == rhs # NoOperand /\ IsLiteral(lhs) /\ IsLiteral(rhs)

\* the mathematical result of the operator on the integers x and y (y # 0
\* for the truncated quotient)
IntegerResult(name, x, y) ==
  CASE name = "add"      -> BigAdd(x, y)
    [] name = "subtract" -> BigSub(x, y)
    [] name = "multiply" -> BigMul(x, y)
    [] name = "divide"   -> BigDiv(x, y)

\* the double of a number text: of its integer when it is an i64
AsF64(t) ==
  IF parse_i64(t).some THEN Some(F64FromInt(parse_i64(t).v)) ELSE parse_f64(t)

\* the owned Number literal with the text t
IsOwnedNumber(r, t) == r = Ok(Literal(Number(t, FALSE)))

\* C12: arithmetic on two Number literals (not long): when both texts parse
\* as i64 the result is the owned Number literal with the text of the integer
\* result of the operator; when one does not but both read as f64 it is the
\* text of the f64 result; when one reads as neither the call fails with
\* UnreachableLiteralArithmetic.
C12_NumberLiteralArithmetic ==
  (op \in BinaryOps /\ OnLiterals /\ IsNumber(lhs.literal) /\ IsNumber(rhs.literal)) =>
    LET l == lhs.literal.text
        r == rhs.literal.text
    IN  IF parse_i64(l).some /\ parse_i64(r).some
        THEN /\ ret.tag = "Ok"
             /\ (op = "divide" /\ parse_i64(r).v = BigZero)
                \/ IsOwnedNumber(ret, I64ToString(IntegerResult(op, parse_i64(l).v, parse_i64(r).v)))
        ELSE IF AsF64(l).some /\ AsF64(r).some
        THEN IsOwnedNumber(ret, F64ToString(F64Op(op, AsF64(l).v, AsF64(r).v)))
        ELSE ret = UnreachableLiteralArithmetic

\* C13: in arithmetic on two literals, a Null literal on either side yields
\* the owned Null literal, whatever the other literal is: a number, a long
\* number, a quoted string, a boolean or Null.
C13_NullLiteralAbsorbing ==
  (op \in BinaryOps /\ OnLiterals /\ LiteralNull \in {lhs.literal, rhs.literal}) =>
    ret = Ok(Literal(LiteralNull))

\* a pairing of literals that is not one of two numbers: some operand is no
\* Number(_, false)
NonNumericPairing(l, r) == ~(IsNumber(l) /\ IsNumber(r))

\* C14: arithmetic on a non-numeric pairing of literals with no Null operand
\* fails with UnsupportedLiteralBinaryArithmetic, whose fields are the texts
\* of the left and of the right operand in that order; it returns no literal
\* and no UnreachableLiteralArithmetic.
C14_UnsupportedPairing ==
  (/\ op \in BinaryOps /\ OnLiterals
   /\ NonNumericPairing(lhs.literal, rhs.literal)
   /\ LiteralNull \notin {lhs.literal, rhs.literal}) =>
    /\ ret.tag = "Err"
    /\ ret.kind = "UnsupportedLiteralBinaryArithmetic"
    /\ ret.lhs = LiteralToString(lhs.literal)
    /\ ret.rhs = LiteralToString(rhs.literal)

C14_Witness ==
  /\ op = "subtract"
  /\ lhs = LiteralRef(SingleQuotedString(<<"a">>))
  /\ rhs = Literal(Number(<<"2", ".", "5">>, FALSE))
  /\ ret.tag = "Err" /\ ret.kind = "UnsupportedLiteralBinaryArithmetic"
  /\ ret.lhs = <<"'", "a", "'">> /\ ret.rhs = <<"2", ".", "5">>

\* the shape of a successful result
ShapeOf(r) == r.value.shape

\* C15: results are owned.  A successful add, subtract, multiply or divide
\* returns Evaluated::Literal when both operands are literals and
\* Evaluated::Value otherwise, a successful unary_plus or unary_minus Literal
\* for a literal and Value for a value, a successful cast always Value; none
\* returns LiteralRef or ValueRef.
C15_ResultsOwned ==
  /\ (op \in BinaryOps /\ ret.tag = "Ok") =>
       ShapeOf(ret) = (IF IsLiteral(lhs) /\ IsLiteral(rhs) THEN "Literal" ELSE "Value")
  /\ (op \in UnaryOps /\ ret.tag = "Ok") =>
       ShapeOf(ret) = (IF IsLiteral(lhs) THEN "Literal" ELSE "Value")
  /\ (op = "cast" /\ ret.tag = "Ok") => ShapeOf(ret) = "Value"

C15_Witness ==
  /\ op = "add"
  /\ lhs = LiteralRef(Number(<<"1">>, FALSE))
  /\ rhs = ValueRef(I16(Big(1)))
  /\ ret.tag = "Ok" /\ ShapeOf(ret) = "Value"

\* the same datum owned and borrowed
Owned(e) ==
  IF IsLiteral(e) THEN Literal(e.literal) ELSE Value(e.value)

Borrowed(e) ==
  IF IsLiteral(e) THEN LiteralRef(e.literal) ELSE ValueRef(e.value)

Shapes(e) == {Owned(e), Borrowed(e)}

\* one operand of the last call is a literal and the other a value
LiteralAgainstValue ==
  /\ rhs # NoOperand
  /\ \/ (IsLiteral(lhs) /\ IsValue(rhs))
     \/ (IsValue(lhs) /\ IsLiteral(rhs))

\* C16: comparison is consistent under the swap of the operands and does not
\* depend on who owns them.  For a literal against a value, eq gives the
\* same with the operands exchanged and partial_cmp the reversed ordering,
\* None staying None; eq and partial_cmp give the same for the borrowed and
\* the owned shape of the same datum.
C16_SwapAndShape ==
  /\ op = "Evaluated::eq" =>
       /\ \A a \in Shapes(lhs), b \in Shapes(rhs) : ret = Evaluated_eq(a, b)
       /\ LiteralAgainstValue => ret = Evaluated_eq(rhs, lhs)
  /\ op = "Evaluated::partial_cmp" =>
       /\ \A a \in Shapes(lhs), b \in Shapes(rhs) : ret = Evaluated_partial_cmp(a, b)
       /\ LiteralAgainstValue =>
            /\ ret = Reverse(Evaluated_partial_cmp(rhs, lhs))
            /\ ret = "None" <=> Evaluated_partial_cmp(rhs, lhs) = "None"

C16_Witness ==
  /\ op = "Evaluated::partial_cmp"
  /\ lhs = LiteralRef(Number(<<"0">>, FALSE))
  /\ rhs = Value(I16(Big(1)))
  /\ ret = "Less"
  /\ Evaluated_partial_cmp(rhs, lhs) = "Greater"

\* the number with the sign the operator gives it
SignedI64(name, v) == IF name = "unary_plus" THEN v ELSE BigNeg(v)

SignedF64(name, v) == IF name = "unary_plus" THEN v ELSE F64Negate(v)

\* C17: a unary sign on a literal.  Null yields the owned Null literal; a
\* Number whose text parses as i64 the Number with the text of the same
\* integer (unary_plus) or of its negation (unary_minus); one that reads as
\* f64 only the text of the f64 result; a quoted string, a boolean and a
\* number text that does not parse fail with
\* LiteralUnaryOperationOnNonNumeric.
C17_UnaryOnLiteral ==
  (op \in UnaryOps /\ IsLiteral(lhs)) =>
    LET v == lhs.literal
    IN  IF v = LiteralNull THEN ret = Ok(Literal(LiteralNull))
        ELSE IF IsNumber(v) /\ parse_i64(v.text).some
        THEN IsOwnedNumber(ret, I64ToString(SignedI64(op, parse_i64(v.text).v)))
        ELSE IF IsNumber(v) /\ parse_f64(v.text).some
        THEN IsOwnedNumber(ret, F64ToString(SignedF64(op, parse_f64(v.text).v)))
        ELSE ret = LiteralUnaryOperationOnNonNumeric

\* C18: is_some tells whether a value is present.  For a literal, borrowed or
\* owned, it is false if and only if the literal is Null, and true for every
\* other literal, the number 0 and the boolean false included; for a value
\* it is the value's own is_some.
C18_IsSome ==
  op = "is_some" =>
    IF IsLiteral(lhs) THEN ret = (lhs.literal.literal # "Null")
    ELSE ret = ValueIsSome(lhs.value)

C18_Witness ==
  /\ op = "is_some"
  /\ lhs \in {LiteralRef(Number(<<"0">>, FALSE)), Literal(Boolean(FALSE))}
  /\ ret = TRUE

\* C19: on two literals ordering and equality agree: a.partial_cmp(b) is
\* Some(Equal) if and only if a == b, also for number literals whose texts
\* differ but denote the same number, such as "1" and "1.0" or "1" and "01".
C19_LiteralCmpAgreesWithEq ==
  OnLiterals =>
    /\ op = "Evaluated::partial_cmp" => (ret = "Equal" <=> Evaluated_eq(lhs, rhs))
    /\ op = "Evaluated::eq" => (ret <=> Evaluated_partial_cmp(lhs, rhs) = "Equal")

\* the result of the scalar operation s as an Evaluated: its value wrapped as
\* Evaluated::Value, its error as it is
Wrapped(s) == IF s.tag = "Ok" THEN Ok(Value(s.value)) ELSE s

\* C20: when an operand of add, subtract, multiply or divide is a value, a
\* literal operand is first made a value by the conversion that infers the
\* type from the literal; when that fails its error is returned, else the
\* result is the scalar operation of the same name on (left, right) in the
\* order of the operands, wrapped as Evaluated::Value, or its error
\* unchanged.
C20_ValueArithmetic ==
  (op \in BinaryOps /\ (IsValue(lhs) \/ IsValue(rhs))) =>
    LET l == try_into(lhs)
        r == try_into(rhs)
    IN  IF l.tag # "Ok" THEN ret = l
        ELSE IF r.tag # "Ok" THEN ret = r
        ELSE ret = Wrapped(ValueBinaryOp(op, l.value, r.value))

C20_Witness ==
  /\ op = "add"
  /\ lhs = ValueRef(I16(MaxOf(16)))
  /\ rhs = LiteralRef(Number(<<"1">>, FALSE))
  /\ ret = Ok(Value(I64(Big(32768))))

(***************************************************************************)
(* Properties of chains of literal arithmetic.                             *)
(***************************************************************************)
\* the text reads as a number: as an i64 or as an f64
ReadsAsNumber(t) == parse_i64(t).some \/ parse_f64(t).some

\* a Null literal or a Number, not long, whose text reads as a number
ClosedLiteral(e) ==
  /\ IsLiteral(e)
  /\ \/ e.literal = LiteralNull
     \/ (IsNumber(e.literal) /\ ReadsAsNumber(e.literal.text))

LiteralErrors ==
  {"UnreachableLiteralArithmetic", "UnsupportedLiteralBinaryArithmetic",
   "LiteralUnaryOperationOnNonNumeric"}

\* C21: literal arithmetic is closed under chaining.  From Null literals and
\* Number literals whose text reads as an i64 or as an f64, every successful
\* result of a sequence of add, subtract, multiply, divide, unary_plus and
\* unary_minus is again an owned Null literal or Number, not long, whose
\* text reads as an i64 or as an f64, so that no step of the chain fails
\* with UnreachableLiteralArithmetic, UnsupportedLiteralBinaryArithmetic or
\* LiteralUnaryOperationOnNonNumeric.
C21_ClosedUnderChaining ==
  /\ ClosedLiteral(lhs)
  /\ rhs # NoOperand => ClosedLiteral(rhs)
  /\ op # "none" =>
       /\ ret.tag = "Ok" => (ret.value.shape = "Literal" /\ ClosedLiteral(ret.value))
       /\ ret.tag = "Err" => ret.kind \notin LiteralErrors

C21_Witness ==
  /\ steps = 1
  /\ op = "multiply"
  /\ lhs = Literal(Number(<<"i", "n", "f">>, FALSE))
  /\ rhs = LiteralRef(Number(<<"0">>, FALSE))
  /\ ret = Ok(Literal(Number(<<"N", "a", "N">>, FALSE)))

\* the integer text t written as a float: 3 as 3.0
FloatForm(t) == t \o <<".", "0">>

\* the other way to write the number of the text t: the float form of an
\* integer that an f64 holds exactly
OtherForms(t) ==
  IF parse_i64(t).some /\ MagBitLen(parse_i64(t).v.mag) <= F64MantBits
  THEN {FloatForm(t)} ELSE {}

\* the texts s and t denote the same number (or both no number)
SameNumber(s, t) ==
  /\ AsF64(s).some /\ AsF64(t).some
  /\ \/ F64PartialCmp(AsF64(s).v, AsF64(t).v) = "Equal"
     \/ (AsF64(s).v.kind = "nan" /\ AsF64(t).v.kind = "nan")

\* the results a and b are numerically equal
SameResult(a, b) ==
  IF a.tag = "Ok" /\ b.tag = "Ok"
  THEN /\ IsNumber(a.value.literal) /\ IsNumber(b.value.literal)
       /\ SameNumber(a.value.literal.text, b.value.literal.text)
  ELSE a = b

\* C22: literal arithmetic depends only on the numbers that the texts denote,
\* not on their integer or float form: for x and x' of the same number, such
\* as "3" (also as the result of "1.5" + "1.5") and "3.0", and any Number y,
\* add, subtract, multiply and divide give numerically equal results for
\* (x, y) and (x', y), and for (y, x) and (y, x').
C22_FormIndependent ==
  (op \in BinaryOps /\ OnLiterals /\ IsNumber(lhs.literal) /\ IsNumber(rhs.literal)) =>
    /\ \A t \in OtherForms(lhs.literal.text) :
         SameResult(ret, binary_op(op, Literal(Number(t, FALSE)), rhs, "debug"))
    /\ \A t \in OtherForms(rhs.literal.text) :
         SameResult(ret, binary_op(op, lhs, Literal(Number(t, FALSE)), "debug"))

====
